---------------------------- MODULE Spec2Model ----------------------------
(***************************************************************************)
(* Model of the ETF portfolio optimisation and risk simulation engine of   *)
(* src/app.py: asset selection, weight optimisation, portfolio building,   *)
(* stress testing and the three operations that draw from numpy's global   *)
(* random generator (frontier sampling, backtest, Monte Carlo).            *)
(*                                                                         *)
(* Units.  The program computes with floats; the model computes with exact *)
(* integers over fixed denominators:                                       *)
(*   yields and returns          per mille           (35 is 0.035)         *)
(*   volatility                  percent             (15 is 0.15)          *)
(*   dividend_quality, multipliers   tenths          (13 is 1.3)           *)
(*   weights                     1/WDen              (WDen is 1.0)         *)
(*   stress impacts              1/ImpactDen                               *)
(* Float rounding is not modelled.                                         *)
(***************************************************************************)
EXTENDS Integers, Sequences, FiniteSets, TLC

VARIABLES
    etf_list,        \* PortfolioOptimizer.etf_list: the asset catalog
    call,            \* arguments of the last recommend_portfolio / select call
    valid_etfs,      \* result of filter_valid_etfs in the last call
    top_etfs,        \* candidates handed to the optimisation step
    solver,          \* what scipy's minimize did in the last call
    weights,         \* optimized_weights of the last call
    portfolio,       \* the portfolio returned by the last call
    warnings,        \* messages surfaced through st.warning / st.error
    stress_in,       \* arguments of the last stress_test_portfolio call
    stress_out,      \* its return value
    rng,             \* state of numpy's global generator (np.random)
    proc,            \* the stochastic operations in progress or finished
    history          \* first result seen for each stochastic call

optVars == <<etf_list, call, valid_etfs, top_etfs, solver, weights, portfolio, warnings>>
stressVars == <<stress_in, stress_out>>
rngVars == <<rng, proc, history>>
vars == <<optVars, stressVars, rngVars>>

None == "none"

-----------------------------------------------------------------------------
(* Generic helpers *)

Abs(x) == IF x < 0 THEN -x ELSE x
Max(a, b) == IF a >= b THEN a ELSE b
Min(a, b) == IF a <= b THEN a ELSE b

\* dict.get(field, default)
Get(d, field, default) == IF field \in DOMAIN d THEN d[field] ELSE default

RECURSIVE SumSeq(_)
SumSeq(s) == IF s = <<>> THEN 0 ELSE Head(s) + SumSeq(Tail(s))

SeqOf(s, F(_)) == [i \in 1..Len(s) |-> F(s[i])]

Range(s) == {s[i] : i \in 1..Len(s)}

\* x in list (Python compares dicts by value)
InList(x, s) == \E i \in 1..Len(s) : s[i] = x

\* list.sort / sorted: a stable sort; before[a, b] is "a's key orders
\* strictly before b's", for a, b among the elements of s.  Element i lands
\* after every element that orders before it and after every earlier
\* element that ties with it.
StableSortBy(s, before) ==
    LET n == Len(s)
        Rank(i) == 1 + Cardinality({j \in 1..n :
                        \/ before[s[j], s[i]]
                        \/ (~before[s[i], s[j]] /\ j < i)})
    IN  [r \in 1..n |-> s[CHOOSE i \in 1..n : Rank(i) = r]]

\* All subsequences of s (order kept), as a set of sequences
RECURSIVE SubSeqs(_)
SubSeqs(s) ==
    IF s = <<>> THEN {<<>>}
    ELSE LET rest == SubSeqs(Tail(s))
         IN  rest \cup {<<Head(s)>> \o r : r \in rest}

-----------------------------------------------------------------------------
(* The asset universe: records as ETFDataManager.load_etf_data supplies    *)
(* them.  An asset may lack a field (the code reads most with dict.get).   *)

Asset(t, c, rl, dy, edy, r1, vol, q) ==
    [ticker |-> t, name |-> t, category |-> c, risk_level |-> rl,
     dividend_yield |-> dy, expected_dividend_yield |-> edy,
     cagr_1y |-> r1, volatility |-> vol, dividend_quality |-> q]

Universe ==
    << Asset("SCHD", "DIV", 3, 35, 35,  80, 12, 8),
       Asset("BND",  "BND", 2, 40, 40,  40,  5, 2),
       Asset("USO",  "COM", 5,  0,  0,   0, 30, 2),
       Asset("VYM",  "DIV", 3, 60, 30,  70, 13, 6),
       Asset("VIG",  "DIV", 3, 20, 20,  90, 12, 7),
       [ticker |-> "NEW", name |-> "NEW", category |-> "LC", risk_level |-> 5,
        dividend_yield |-> 15],
       Asset("VUG",  "GRO", 6,  5,  5, 120, 20, 2),
       Asset("DVY",  "DIV", 4, 45, 45,  60, 14, 5),
       Asset("HDV",  "DIV", 3, 38, 38,  75, 11, 9),
       Asset("NOBL", "DIV", 3, 22, 22,  85, 12, 6),
       Asset("JEPI", "CC",  4, 80, 80,  60, 10, 7),
       Asset("QYLD", "CC",  4, 110, 110, 50, 11, 4),
       Asset("ARKK", "GRO", 7,  0,  0, -50, 35, 2) >>

-----------------------------------------------------------------------------
(* PortfolioOptimizer.filter_valid_etfs *)

\* faulty variant: the trailing yield is taken whatever the expected one is
trailing_dy(etf) == Get(etf, "dividend_yield", 0)

\* effective_dy: the expected yield when it is positive and the trailing
\* yield exceeds 1.5 times it, otherwise the trailing yield
effective_dy(etf) ==
    LET current_dy  == Get(etf, "dividend_yield", 0)
        expected_dy == Get(etf, "expected_dividend_yield", 0)
    IN  IF expected_dy > 0 /\ 2 * current_dy > 3 * expected_dy
        THEN expected_dy ELSE current_dy

\* The record appended for a kept asset.  cagr_3y, cagr_5y, beta,
\* max_drawdown, dividend_growth and dividend_consistency are copied by the
\* code and read by nothing that follows; they are left out.
valid_record(etf) ==
    [ticker |-> etf.ticker, name |-> etf.name,
     dividend_yield |-> effective_dy(etf),
     cagr_1y |-> etf.cagr_1y,
     volatility |-> Get(etf, "volatility", 15),
     risk_level |-> Get(etf, "risk_level", 5),
     category |-> Get(etf, "category", "UNKNOWN"),
     dividend_quality |-> Get(etf, "dividend_quality", 5)]

RECURSIVE filter_valid_etfs(_)
filter_valid_etfs(list) ==
    IF list = <<>> THEN <<>>
    ELSE IF Get(Head(list), "cagr_1y", 0) <= 0
         THEN filter_valid_etfs(Tail(list))
         ELSE <<valid_record(Head(list))>> \o filter_valid_etfs(Tail(list))

-----------------------------------------------------------------------------
(* PortfolioOptimizer.select_top_etfs *)

\* target_div_yield = target_value * 12 / seed_money if seed_money > 0 else 0,
\* per mille.  The inputs enumerated below make the division exact.
target_div_yield(target_value, seed_money) ==
    IF seed_money > 0 THEN (target_value * 12 * 1000) \div seed_money ELSE 0

\* defaultdict(int) lookup
Count(cnt, c) == IF c \in DOMAIN cnt THEN cnt[c] ELSE 0
Bump(cnt, c)  == [k \in DOMAIN cnt \cup {c} |-> IF k = c THEN Count(cnt, c) + 1 ELSE cnt[k]]
NoCount       == [k \in {} |-> 0]

\* for etf in list: if category_count[cat] < cap: selected.append(etf) ...
\* with "if len(selected) >= limit: break" tested first (limit < 0: no test)
RECURSIVE TakeCapped(_, _, _, _, _)
TakeCapped(list, cap, limit, sel, cnt) ==
    IF list = <<>> THEN [sel |-> sel, cnt |-> cnt]
    ELSE IF limit >= 0 /\ Len(sel) >= limit THEN [sel |-> sel, cnt |-> cnt]
    ELSE LET etf == Head(list)
         IN  IF Count(cnt, etf.category) < cap
             THEN TakeCapped(Tail(list), cap, limit, Append(sel, etf), Bump(cnt, etf.category))
             ELSE TakeCapped(Tail(list), cap, limit, sel, cnt)

\* The second pass of the growth/balanced branch (lines 427-433): add assets
\* not yet selected whose category is below 2, until 3 are selected
RECURSIVE GrowthFill(_, _, _)
GrowthFill(list, sel, cnt) ==
    IF list = <<>> THEN [sel |-> sel, cnt |-> cnt]
    ELSE LET etf == Head(list)
         IN  IF ~InList(etf, sel) /\ Count(cnt, etf.category) < 2
             THEN LET sel2 == Append(sel, etf)
                      cnt2 == Bump(cnt, etf.category)
                  IN  IF Len(sel2) >= 3 THEN [sel |-> sel2, cnt |-> cnt2]
                      ELSE GrowthFill(Tail(list), sel2, cnt2)
             ELSE GrowthFill(Tail(list), sel, cnt)

\* The final loop (lines 437-445): at most 8, and for dividend focus at most
\* 3 per category, counted afresh
RECURSIVE TopLoop(_, _, _, _)
TopLoop(list, dividend, top, cnt) ==
    IF list = <<>> THEN [sel |-> top, cnt |-> cnt]
    ELSE IF Len(top) >= 8 THEN [sel |-> top, cnt |-> cnt]
    ELSE LET etf == Head(list)
         IN  IF dividend /\ Count(cnt, etf.category) >= 3
             THEN TopLoop(Tail(list), dividend, top, cnt)
             ELSE TopLoop(Tail(list), dividend, Append(top, etf), Bump(cnt, etf.category))

\* The top-up loop (lines 454-461)
RECURSIVE ExtraLoop(_, _, _, _, _)
ExtraLoop(remaining, dividend, top, cnt, extra_needed) ==
    IF remaining = <<>> THEN top
    ELSE LET etf == Head(remaining)
         IN  IF Len(top) >= 8 \/ (dividend /\ Count(cnt, etf.category) >= 3)
             THEN top
             ELSE IF extra_needed - 1 <= 0
                  THEN Append(top, etf)
                  ELSE ExtraLoop(Tail(remaining), dividend, Append(top, etf),
                                 Bump(cnt, etf.category), extra_needed - 1)

DivDistance(etf, tdy)   == Abs(etf.dividend_yield - tdy)
\* faulty variant: the distance keeps its sign
RetDistanceSigned(etf, target) == etf.cagr_1y - target

RetDistance(etf, target) == Abs(etf.cagr_1y - target)

\* valid_etfs.sort(key=...): the caller's list, sorted in place (lines 407, 418)
sorted_in_place(valid, investment_focus, target_value, seed_money) ==
    IF investment_focus = "dividend"
    THEN LET tdy == target_div_yield(target_value, seed_money)
         IN  StableSortBy(valid, [a, b \in Range(valid) |-> DivDistance(a, tdy) < DivDistance(b, tdy)])
    ELSE StableSortBy(valid, [a, b \in Range(valid) |->
                               RetDistance(a, target_value) < RetDistance(b, target_value)])

\* valid_etfs after the focus branch (lines 405-434): the name valid_etfs is
\* rebound to the selected list
select_top_stage1(valid, investment_focus, target_value, seed_money) ==
    IF investment_focus = "dividend"
    THEN LET sorted == sorted_in_place(valid, investment_focus, target_value, seed_money)
         IN  TakeCapped(sorted, 3, -1, <<>>, NoCount).sel
    ELSE LET sorted == sorted_in_place(valid, investment_focus, target_value, seed_money)
             first  == TakeCapped(sorted, 2, 5, <<>>, NoCount)
         IN  IF Len(first.sel) < 3
             THEN GrowthFill(sorted, first.sel, first.cnt).sel
             ELSE first.sel

select_top_etfs(valid, investment_focus, target_value, seed_money) ==
    LET dividend == (investment_focus = "dividend")
        rebound  == select_top_stage1(valid, investment_focus, target_value, seed_money)
        top      == TopLoop(rebound, dividend, <<>>, NoCount)
    IN  IF Len(top.sel) < 3
        THEN LET rem == SelectSeq(rebound, LAMBDA e : ~InList(e, top.sel))
                 tdy == target_div_yield(target_value, seed_money)
                 remaining ==
                     IF dividend
                     THEN StableSortBy(rem, [a, b \in Range(rem) |->
                                 DivDistance(a, tdy) < DivDistance(b, tdy)])
                     ELSE StableSortBy(rem, [a, b \in Range(rem) |->
                                 RetDistance(a, target_value) < RetDistance(b, target_value)])
             IN  ExtraLoop(remaining, dividend, top.sel, top.cnt, 3 - Len(top.sel))
        ELSE top.sel


-----------------------------------------------------------------------------
(* PortfolioOptimizer.select_etfs_by_profile *)

\* risk_limits.get(risk_tolerance, 6)
max_risk(profile) ==
    LET rt == Get(profile, "risk_tolerance", "moderate")
    IN  CASE rt = "conservative" -> 4
          [] rt = "moderate"     -> 6
          [] rt = "aggressive"   -> 10
          [] OTHER               -> 6

\* horizon_weights.get(horizon, {}).get(category, 1.0), in tenths
horizon_multiplier(horizon, category) ==
    CASE horizon = "short"  /\ category = "BND" -> 20
      [] horizon = "short"  /\ category = "DIV" -> 15
      [] horizon = "short"  /\ category = "LV"  -> 12
      [] horizon = "medium" /\ category = "DIV" -> 15
      [] horizon = "medium" /\ category = "LV"  -> 12
      [] horizon = "medium" /\ category = "LC"  -> 12
      [] horizon = "long"   /\ category = "GRO" -> 15
      [] horizon = "long"   /\ category = "LC"  -> 12
      [] horizon = "long"   /\ category = "SC"  -> 12
      [] OTHER -> 10

\* income_weights.get(income_need, {}).get(category, 1.0), in tenths
income_multiplier(income_need, category) ==
    CASE income_need = "low"    /\ category = "GRO" -> 15
      [] income_need = "low"    /\ category = "LC"  -> 12
      [] income_need = "medium" /\ category = "DIV" -> 12
      [] income_need = "medium" /\ category = "CC"  -> 12
      [] income_need = "high"   /\ category = "DIV" -> 20
      [] income_need = "high"   /\ category = "CC"  -> 18
      [] income_need = "high"   /\ category = "BND" -> 15
      [] OTHER -> 10

\* focus_weights.get(investment_focus, {}).get(category, 1.0), in tenths
focus_multiplier(focus, category) ==
    CASE focus = "dividend" /\ category = "DIV" -> 20
      [] focus = "dividend" /\ category = "CC"  -> 18
      [] focus = "dividend" /\ category = "RE"  -> 13
      [] focus = "growth"   /\ category = "GRO" -> 20
      [] focus = "growth"   /\ category = "LC"  -> 15
      [] focus = "balanced" /\ category = "DIV" -> 13
      [] focus = "balanced" /\ category = "LC"  -> 13
      [] focus = "balanced" /\ category = "BND" -> 13
      [] OTHER -> 10

\* risk_score = 1 - risk_level / 10, less 0.2 per level above the limit,
\* floored at 0; in tenths
risk_score(etf, profile) ==
    LET base == 10 - etf.risk_level
    IN  IF etf.risk_level > max_risk(profile)
        THEN Max(base - 2 * (etf.risk_level - max_risk(profile)), 0)
        ELSE base

\* final_score as the fraction num / den, both scaled by the same constant
\* for every asset of one call:
\*   final_score = risk_score * horizon * income * focus * target_score * dividend_factor
\*   target_score = 1 / (1 + 10 |yield - target|) = 100 / (100 + d)   (dividend; d per mille)
\*                = 1 / (1 +  5 |ret - target|)   = 200 / (200 + d)   (otherwise)
\*   dividend_factor = 0.5 + 0.5 * quality = (10 + q) / 20, or 1 = 20 / 20
\* so final_score = num / den * (K / 200000) with K = 100 or 200.
profile_score(etf, profile, target_value, seed_money) ==
    LET horizon     == Get(profile, "investment_horizon", "medium")
        income_need == Get(profile, "income_needs", "medium")
        focus       == Get(profile, "investment_focus", "balanced")
        category    == Get(etf, "category", "")
        d   == IF focus = "dividend"
               THEN Abs(etf.dividend_yield - target_div_yield(target_value, seed_money))
               ELSE Abs(etf.cagr_1y - target_value)
        K   == IF focus = "dividend" THEN 100 ELSE 200
        dfn == IF focus = "dividend" \/ income_need = "high"
               THEN 10 + Get(etf, "dividend_quality", 5) ELSE 20
    IN  [num |-> risk_score(etf, profile) * horizon_multiplier(horizon, category)
                   * income_multiplier(income_need, category)
                   * focus_multiplier(focus, category) * dfn,
         den |-> K + d]

ZeroScore == [num |-> 0, den |-> 1]

\* key a > key b for the fractions a and b
ScoreGreater(a, b) == a.num * b.den > b.num * a.den

\* {**etf, 'profile_score': final_score}
Scored(etf, profile, target_value, seed_money) ==
    [f \in DOMAIN etf \cup {"profile_score"} |->
        IF f = "profile_score" THEN profile_score(etf, profile, target_value, seed_money)
        ELSE etf[f]]

Categories(list) == {list[i].category : i \in 1..Len(list)}

\* faulty variant: the loop stops on the category count alone
RECURSIVE DiversityLoopUncapped(_, _, _)
DiversityLoopUncapped(missing, selected, categories) ==
    IF missing = <<>> THEN selected
    ELSE IF Cardinality(categories) >= 3 THEN selected
    ELSE DiversityLoopUncapped(Tail(missing), Append(selected, Head(missing)),
                               categories \cup {Head(missing).category})

\* The loop over missing_categories (lines 555-559)
RECURSIVE DiversityLoop(_, _, _)
DiversityLoop(missing, selected, categories) ==
    IF missing = <<>> THEN selected
    ELSE IF Cardinality(categories) >= 3 \/ Len(selected) >= 8 THEN selected
    ELSE DiversityLoop(Tail(missing), Append(selected, Head(missing)),
                       categories \cup {Head(missing).category})

select_etfs_by_profile(valid, profile, target_value, seed_money) ==
    LET scored_etfs == [i \in 1..Len(valid) |-> Scored(valid[i], profile, target_value, seed_money)]
        by_score    == StableSortBy(scored_etfs,
                          [a, b \in Range(scored_etfs) |->
                              ScoreGreater(Get(a, "profile_score", ZeroScore),
                                           Get(b, "profile_score", ZeroScore))])
        selected    == SubSeq(by_score, 1, Min(8, Len(by_score)))
        categories  == Categories(selected)
    IN  IF Cardinality(categories) < 3 /\ Len(valid) > Len(selected)
        THEN LET unsel   == SelectSeq(valid, LAMBDA e : e.category \notin categories
                                                        /\ ~InList(e, selected))
                 missing == StableSortBy(unsel,
                               [a, b \in Range(unsel) |->
                                   ScoreGreater(Get(a, "profile_score", ZeroScore),
                                                Get(b, "profile_score", ZeroScore))])
             IN  DiversityLoop(missing, selected, categories)
        ELSE selected


-----------------------------------------------------------------------------
(* numpy's global random generator.  The Mersenne Twister is modelled by a  *)
(* small full-period congruential generator: what matters is that it is    *)
(* one process-wide state that seed() resets and every draw advances.      *)

\* np.random.seed(s)
Seeded(s) == s % 16

\* the generator's state after one more draw
NextRng(r) == (5 * r + 3) % 16

\* np.random.random(): the value drawn when the state before the draw is r,
\* in sixteenths
Uniform(r) == NextRng(r)

\* np.random.normal(0, 1): the value drawn when the state before is r
Gauss(r) == (NextRng(r) % 5) - 2

RECURSIVE Advance(_, _)
Advance(r, k) == IF k = 0 THEN r ELSE Advance(NextRng(r), k - 1)

\* the generator states before each of k successive draws
DrawStates(r, k) == [i \in 1..k |-> Advance(r, i - 1)]

-----------------------------------------------------------------------------
(* The optimisers.  scipy.optimize.minimize is library code: its outcome   *)
(* is an input of the model.  It raises, or returns without converging     *)
(* (success False, x its last iterate), or converges to a point that meets *)
(* the bounds and the constraint.                                          *)

\* 1.0 as a weight; 8400 is divisible by every n up to 8
WDen == 8400
\* bounds = [(0.05, 0.4)] * n
LowerBound == 420
UpperBound == 3360

\* initial_weights = [1/n] * n
initial_weights(n) == [i \in 1..n |-> WDen \div n]

\* the starting point clipped into the bounds: the iterate a solver that
\* gives up at once reports
ClippedInitial(n) == [i \in 1..n |-> Min(Max(WDen \div n, LowerBound), UpperBound)]

InBox(w)    == \A i \in 1..Len(w) : w[i] >= LowerBound /\ w[i] <= UpperBound
SumsToOne(w) == SumSeq(w) = WDen

\* the feasible point that gives asset k as much as the box and the
\* constraint allow and shares the rest equally
Tilted(n, k) ==
    LET hi == Min(UpperBound, WDen - LowerBound * (n - 1))
    IN  [i \in 1..n |-> IF i = k THEN hi ELSE (WDen - hi) \div (n - 1)]

\* a sample of the feasible set: equal weights and the two end tilts
FeasiblePoints(n) ==
    {w \in {initial_weights(n)} \cup (IF n >= 2 THEN {Tilted(n, 1), Tilted(n, n)} ELSE {}) :
        InBox(w) /\ SumsToOne(w)}

SolverResults(n) ==
    {[status |-> "raised", x |-> <<>>], [status |-> "not_converged", x |-> ClippedInitial(n)]}
    \cup {[status |-> "success", x |-> w] : w \in FeasiblePoints(n)}

NotCalled == [status |-> "not_called", x |-> <<>>]

\* faulty variant: the last iterate is returned whether or not the solver converged
minimize_returns_x(n, res, msg) ==
    IF res.status = "raised"
    THEN [w |-> initial_weights(n), warn |-> <<msg>>]
    ELSE [w |-> res.x, warn |-> <<>>]

\* try: result = minimize(...); return result.x if result.success else initial_weights
\* except: st.warning(msg); return initial_weights
minimize_or_initial(n, res, msg) ==
    IF res.status = "raised"
    THEN [w |-> initial_weights(n), warn |-> <<msg>>]
    ELSE [w |-> IF res.status = "success" THEN res.x ELSE initial_weights(n), warn |-> <<>>]

Empty == [w |-> <<>>, warn |-> <<>>]

optimize_weights_sharpe(etfs, res) ==
    IF Len(etfs) = 0 THEN Empty ELSE minimize_or_initial(Len(etfs), res, "sharpe failed")

optimize_risk_parity(etfs, res) ==
    IF Len(etfs) = 0 THEN Empty ELSE minimize_or_initial(Len(etfs), res, "risk parity failed")

\* faulty variant: the weights follow the volatilities
min_variance_by_volatility(etfs, res) ==
    LET vol(i) == Get(etfs[i], "volatility", 15)
        total  == SumSeq([i \in 1..Len(etfs) |-> vol(i)])
    IN  [w |-> [i \in 1..Len(etfs) |-> (WDen * vol(i)) \div total], warn |-> <<>>]

optimize_min_variance(etfs, res) ==
    IF Len(etfs) = 0 THEN Empty ELSE minimize_or_initial(Len(etfs), res, "min variance failed")

optimize_target_return(etfs, target_return, res) ==
    IF Len(etfs) = 0 THEN Empty ELSE minimize_or_initial(Len(etfs), res, "target return failed")

optimize_target_dividend(etfs, tdy, res) ==
    IF Len(etfs) = 0 THEN Empty ELSE minimize_or_initial(Len(etfs), res, "target dividend failed")

\* the four known method names and one name outside them
Methods == {"sharpe", "risk_parity", "min_variance", "target_return", "equal_weight"}

\* faulty variant: a name outside the four is reported before equal weights
\* are taken
optimize_step_warning(etfs, method, investment_focus, target_value, seed_money, res) ==
    CASE method = "sharpe"       -> optimize_weights_sharpe(etfs, res)
      [] method = "risk_parity"  -> optimize_risk_parity(etfs, res)
      [] method = "min_variance" -> optimize_min_variance(etfs, res)
      [] method = "target_return" ->
            IF investment_focus = "dividend"
            THEN optimize_target_dividend(etfs, target_div_yield(target_value, seed_money), res)
            ELSE optimize_target_return(etfs, target_value, res)
      [] OTHER -> [w |-> initial_weights(Len(etfs)), warn |-> <<"unknown method">>]

\* The optimisation step of recommend_portfolio (lines 337-356)
optimize_step(etfs, method, investment_focus, target_value, seed_money, res) ==
    CASE method = "sharpe"       -> optimize_weights_sharpe(etfs, res)
      [] method = "risk_parity"  -> optimize_risk_parity(etfs, res)
      [] method = "min_variance" -> optimize_min_variance(etfs, res)
      [] method = "target_return" ->
            IF investment_focus = "dividend"
            THEN optimize_target_dividend(etfs, target_div_yield(target_value, seed_money), res)
            ELSE optimize_target_return(etfs, target_value, res)
      [] OTHER -> [w |-> initial_weights(Len(etfs)), warn |-> <<>>]

\* whether the step calls the solver
CallsSolver(method) == method \in {"sharpe", "risk_parity", "min_variance", "target_return"}


-----------------------------------------------------------------------------
(* PortfolioOptimizer.build_portfolio *)

\* faulty variant: the weights are used as they come
not_normalized(ws) == ws

\* weights = [w / total_weight for w in weights] when the sum is off 1 (by
\* more than 1e-6; one unit of weight here is above that)
normalized(ws) ==
    LET total_weight == SumSeq(ws)
    IN  IF total_weight # WDen
        THEN [i \in 1..Len(ws) |-> (ws[i] * WDen) \div total_weight]
        ELSE ws

\* one holding; expected_monthly_dividend is held as invest * yield (that
\* is, times 12000) and expected_annual_return_value as invest * return
\* (times 1000)
Holding(etf, weight, seed_money) ==
    LET invest_amount == (seed_money * weight) \div WDen
    IN  [name |-> etf.name, ticker |-> etf.ticker, weight |-> weight,
         invest_amount |-> invest_amount,
         dividend_yield |-> etf.dividend_yield,
         annual_return |-> etf.cagr_1y,
         risk_level |-> etf.risk_level,
         category |-> etf.category,
         volatility |-> Get(etf, "volatility", 15),
         expected_monthly_dividend |-> invest_amount * etf.dividend_yield,
         expected_annual_return_value |-> invest_amount * etf.cagr_1y,
         dividend_quality |-> Get(etf, "dividend_quality", 5)]

build_portfolio(etfs, ws, seed_money) ==
    LET w2 == normalized(ws)
        n  == Min(Len(etfs), Len(w2))
        unsorted == [i \in 1..n |-> Holding(etfs[i], w2[i], seed_money)]
    IN  StableSortBy(unsorted, [a, b \in Range(unsorted) |-> a.weight > b.weight])

-----------------------------------------------------------------------------
(* PortfolioOptimizer.generate_efficient_frontier *)

\* one sampled point from the n uniform draws us (in sixteenths):
\* weights = us / sum(us); ret is sum(returns * us), to be divided by
\* sum(us); var2 is twice weights' Cov weights times sum(us)^2, with
\* Cov = outer(vol, vol) * (0.5 off the diagonal, 1 on it)
\* return, volatility and sharpe are the three numbers the code reports, in
\* thousandths, rounded down: return = ret / sum(us), volatility =
\* sqrt(var2 / 2) / sum(us) (percent, times 10), sharpe = (return - 0.03) /
\* volatility if volatility > 0 else 0
\* np.sqrt, rounded down: the largest k in lo..hi with k * k <= x
RECURSIVE sqrt_between(_, _, _)
sqrt_between(x, lo, hi) ==
    IF lo >= hi THEN lo
    ELSE LET mid == (lo + hi + 1) \div 2
         IN  IF mid * mid <= x THEN sqrt_between(x, mid, hi)
             ELSE sqrt_between(x, lo, mid - 1)

sqrt(x) == sqrt_between(x, 0, Min(x, 46340))

\* the weights are the draws us divided by their sum (weights /= np.sum(weights));
\* they are held as the draws together with the sum
weights_sum(us) == SumSeq(us)

FrontierPoint(etfs, us) ==
    LET n == Len(etfs)
        vol(i) == Get(etfs[i], "volatility", 15)
        uv == [i \in 1..n |-> us[i] * vol(i)]
        wsum == weights_sum(us)
        ret  == SumSeq([i \in 1..n |-> etfs[i].cagr_1y * us[i]])
        var2 == SumSeq(uv) * SumSeq(uv) + SumSeq([i \in 1..n |-> uv[i] * uv[i]])
        portfolio_return == ret \div wsum
        portfolio_volatility == sqrt(var2 * 50) \div wsum
    IN  [weights |-> us,
         wsum    |-> wsum,
         ret     |-> ret,
         var2    |-> var2,
         return  |-> portfolio_return,
         volatility |-> portfolio_volatility,
         sharpe  |-> IF portfolio_volatility > 0
                     THEN ((portfolio_return - 30) * 1000) \div portfolio_volatility
                     ELSE 0]

\* max(results, key=...): the first of the points with the largest key
first_max(points, key) ==
    LET k == CHOOSE k \in DOMAIN points :
                 /\ \A j \in DOMAIN points : points[j][key] <= points[k][key]
                 /\ \A j \in 1..(k - 1) : points[j][key] < points[k][key]
    IN  points[k]

\* min(results, key=...): the first of the points with the smallest key
first_min(points, key) ==
    LET k == CHOOSE k \in DOMAIN points :
                 /\ \A j \in DOMAIN points : points[j][key] >= points[k][key]
                 /\ \A j \in 1..(k - 1) : points[j][key] > points[k][key]
    IN  points[k]

\* faulty variant: the point reported as max-Sharpe is the one of largest return
max_return_portfolio(points) == first_max(points, "return")

max_sharpe_portfolio(points) == first_max(points, "sharpe")

min_vol_portfolio(points) == first_min(points, "volatility")

\* np.random.random(n): n uniform draws in one call, from generator state r
UniformBlock(r, n) == [i \in 1..n |-> Uniform(Advance(r, i - 1))]

\* the frontier from the blocks drawn, one block per sampled portfolio
\* (etf_points, the candidates' own figures, are left out.)  With no block
\* drawn, max() of the empty list raises
frontier_of_draws(etfs, blocks) ==
    LET results == [k \in 1..Len(blocks) |-> FrontierPoint(etfs, blocks[k])]
    IN  IF blocks = <<>> THEN [error |-> "ValueError"]
        ELSE [portfolios     |-> results,
              max_sharpe     |-> max_sharpe_portfolio(results),
              min_volatility |-> min_vol_portfolio(results)]

\* the result when the draws start from generator state r0, and the state
\* the generator is left in
frontier_from(etfs, num_portfolios, r0) ==
    LET n == Len(etfs)
    IN  [data |-> frontier_of_draws(etfs,
                      [k \in 1..num_portfolios |-> UniformBlock(Advance(r0, (k - 1) * n), n)]),
         rng  |-> Advance(r0, num_portfolios * n)]

NoFrontier == [portfolios |-> <<>>]

\* if len(etfs) < 2: return {};  np.random.seed(42);  the sampling loop
generate_efficient_frontier(etfs, num_portfolios, r) ==
    IF Len(etfs) < 2 THEN [data |-> NoFrontier, rng |-> r]
    ELSE frontier_from(etfs, num_portfolios, Seeded(42))


-----------------------------------------------------------------------------
(* Inputs *)

\* how many assets of the universe a catalog of the optimisation runs draws on
PoolBound == 5

\* num_portfolios of generate_efficient_frontier as recommend_portfolio calls
\* it (100 in the source, scaled down)
DefaultNumPortfolios == 2

Focuses == {"dividend", "growth", "balanced"}

\* seed_money, in units that make weight * seed_money exact
SeedMoneys == {8400}

\* target_value: a monthly dividend for the dividend focus (21 and 56 are
\* 3% and 8% a year of 8400), a yearly return per mille otherwise
Targets(focus) == IF focus = "dividend" THEN {21, 56} ELSE {50, 100}

NoProfile == <<>>

Profiles(focuses) ==
    {[risk_tolerance |-> rt, investment_horizon |-> h, income_needs |-> inc,
      investment_focus |-> f] :
        rt \in {"conservative", "moderate", "aggressive"},
        h \in {"short", "medium", "long"},
        inc \in {"low", "medium", "high"},
        f \in focuses}

\* the profiles of the optimisation runs: as the optimisation page builds
\* them, investment_focus is the focus of the request; the horizon is fixed
\* here and varies in the selection runs
PipelineProfiles(focus) == {p \in Profiles({focus}) : p.investment_horizon = "medium"}

Catalogs == SubSeqs(SubSeq(Universe, 1, Min(PoolBound, Len(Universe))))

NoCall   == [op |-> "none"]
NoStress == [op |-> "none"]
IdleProc == <<>>
NoHistory == <<>>

-----------------------------------------------------------------------------
(* PortfolioOptimizer.recommend_portfolio *)

\* for p in final_portfolio: p["efficient_frontier"] = ef_data
WithFrontier(pf, ef_data) ==
    [i \in 1..Len(pf) |->
        [f \in DOMAIN pf[i] \cup {"efficient_frontier"} |->
            IF f = "efficient_frontier" THEN ef_data ELSE pf[i][f]]]

\* if investor_profile: select_etfs_by_profile(...) else: select_top_etfs(...)
select(valid, investment_focus, target_value, seed_money, investor_profile) ==
    IF DOMAIN investor_profile # {}
    THEN select_etfs_by_profile(valid, investor_profile, target_value, seed_money)
    ELSE select_top_etfs(valid, investment_focus, target_value, seed_money)

\* faulty variant: a catalog with nothing to reject is handed back as it is
filter_returns_whole_input(etfs, valid) == Len(valid) = Len(etfs)

\* whether the list the filter returns is the list object it was given:
\* line 369 starts a new list and lines 384-399 append new dictionaries
filter_returns_input(etfs, valid) == FALSE

\* valid_etfs is sorted in place by select_top_etfs; the catalog is reordered
\* with it only where it is the same list object.  investor_profile is read
\* with .get (lines 470-480) and kept in the frame as it was passed
recommend_core(investment_focus, seed_money, target_value, investor_profile, method) ==
    LET valid == filter_valid_etfs(etf_list)
    IN  /\ valid_etfs' = IF valid # <<>> /\ DOMAIN investor_profile = {}
                         THEN sorted_in_place(valid, investment_focus, target_value, seed_money)
                         ELSE valid
        /\ IF valid = <<>>
           THEN /\ warnings' = <<"no valid ETF">>
                /\ top_etfs' = <<>>
                /\ solver' = NotCalled
                /\ weights' = <<>>
                /\ portfolio' = <<>>
                /\ rng' = rng
           ELSE LET top == select(valid, investment_focus, target_value, seed_money, investor_profile)
                IN  \E res \in (IF CallsSolver(method) THEN SolverResults(Len(top)) ELSE {NotCalled}) :
                        LET opt == optimize_step(top, method, investment_focus, target_value, seed_money, res)
                            ef  == generate_efficient_frontier(top, DefaultNumPortfolios, rng)
                        IN  /\ top_etfs' = top
                            /\ solver' = res
                            /\ weights' = opt.w
                            /\ warnings' = opt.warn
                            /\ portfolio' = WithFrontier(build_portfolio(top, opt.w, seed_money), ef.data)
                            /\ rng' = ef.rng
        /\ etf_list' = IF filter_returns_input(etf_list, valid) THEN valid_etfs' ELSE etf_list

\* the call as a request of its own: the frame is entered, the body runs
recommend_portfolio(investment_focus, seed_money, target_value, investor_profile, method) ==
    /\ call.op = "none"
    /\ call' = [op |-> "recommend", investment_focus |-> investment_focus,
                seed_money |-> seed_money, target_value |-> target_value,
                investor_profile |-> investor_profile, optimization_method |-> method]
    /\ recommend_core(investment_focus, seed_money, target_value, investor_profile, method)
    /\ UNCHANGED <<stressVars, proc, history>>

Recommend ==
    \E focus \in Focuses, seed_money \in SeedMoneys, method \in Methods :
        \E target_value \in Targets(focus), profile \in PipelineProfiles(focus) \cup {NoProfile} :
            recommend_portfolio(focus, seed_money, target_value, profile, method)

Init ==
    /\ etf_list \in Catalogs
    /\ call = NoCall
    /\ valid_etfs = <<>>
    /\ top_etfs = <<>>
    /\ solver = NotCalled
    /\ weights = <<>>
    /\ portfolio = <<>>
    /\ warnings = <<>>
    /\ stress_in = NoStress
    /\ stress_out = NoStress
    /\ rng = Seeded(0)
    /\ proc = IdleProc
    /\ history = NoHistory

\* The call has returned and its frame is gone: the locals and the returned
\* list are observable only until the next request starts.  The catalog and
\* the generator outlive the call.
Finish ==
    /\ call.op = "recommend"
    /\ call' = NoCall
    /\ valid_etfs' = <<>>
    /\ top_etfs' = <<>>
    /\ solver' = NotCalled
    /\ weights' = <<>>
    /\ portfolio' = <<>>
    /\ warnings' = <<>>
    /\ UNCHANGED <<etf_list, stressVars, rngVars>>

Next == Recommend \/ Finish

Spec == Init /\ [][Next]_vars


-----------------------------------------------------------------------------
(* Claims about the optimisation request (specification Spec) *)

Returned == call.op = "recommend"

\* C1 (the claim as stated): every weight vector the optimisation step
\* returns, for every candidate set the selector hands to it, has each
\* weight in [0.05, 0.40] and sums to 1.
C01_WeightsInBoxSumToOne ==
    (Returned /\ top_etfs # <<>>) => (InBox(weights) /\ SumsToOne(weights))

\* C2 (the claim as stated): when fewer than 3 assets pass the validity
\* filter, selection fails: an error is surfaced and no portfolio is
\* produced.
C02_FewerThanThreeValidFails ==
    (Returned /\ Len(valid_etfs) < 3) => (portfolio = <<>> /\ warnings # <<>>)

C19_UnknownMethodIsEqualWeights ==
    (/\ Returned
     /\ call.optimization_method \notin {"sharpe", "risk_parity", "min_variance", "target_return"}
     /\ top_etfs # <<>>) =>
        /\ Len(weights) = Len(top_etfs)
        /\ \A i \in DOMAIN weights : weights[i] * Len(top_etfs) = WDen
        /\ solver.status = "not_called"
        /\ warnings = <<>>
        /\ Len(portfolio) = Len(top_etfs)
        /\ \A h \in DOMAIN portfolio : portfolio[h].weight * Len(top_etfs) = WDen

\* a returned call with the method name equal_weight and four candidates
C19_Witness ==
    /\ Returned
    /\ call.optimization_method = "equal_weight"
    /\ Len(top_etfs) = 4
    /\ Len(portfolio) = 4
    /\ weights[1] = WDen \div 4

C04_FallbackIsEqualWeights ==
    (Returned /\ solver.status \in {"not_converged", "raised"}) =>
        /\ Len(top_etfs) >= 1
        /\ Len(weights) = Len(top_etfs)
        /\ \A i \in 1..Len(weights) : weights[i] * Len(top_etfs) = WDen
        /\ Len(portfolio) = Len(top_etfs)

\* the fallback taken by the target-dividend routine on a candidate set the
\* solver could have solved, and by another routine after the solver raised
C04_Witness ==
    /\ Returned
    /\ solver.status = "not_converged"
    /\ call.optimization_method = "target_return"
    /\ call.investment_focus = "dividend"
    /\ Len(top_etfs) >= 3
    /\ weights = initial_weights(Len(top_etfs))

\* C5 (the claim as stated): whenever an optimiser falls back to equal
\* weights, because the solver raised or because it returned without
\* converging, a warning is surfaced.
C05_FallbackWarns ==
    (Returned /\ solver.status \in {"not_converged", "raised"}) => warnings # <<>>


-----------------------------------------------------------------------------
(* Selection on its own (specification SpecSel): the two selectors applied *)
(* to every pool of valid assets the universe yields.                      *)

ValidPools == {filter_valid_etfs(c) : c \in SubSeqs(Universe)}

InitSel ==
    /\ valid_etfs \in ValidPools
    /\ etf_list = <<>>
    /\ call = NoCall
    /\ top_etfs = <<>>
    /\ solver = NotCalled
    /\ weights = <<>>
    /\ portfolio = <<>>
    /\ warnings = <<>>
    /\ stress_in = NoStress
    /\ stress_out = NoStress
    /\ rng = Seeded(0)
    /\ proc = IdleProc
    /\ history = NoHistory

SelectTop ==
    \E focus \in Focuses, seed_money \in SeedMoneys :
        \E target_value \in Targets(focus) :
            /\ call.op = "none"
            /\ call' = [op |-> "select_top_etfs", pool |-> valid_etfs,
                        investment_focus |-> focus, seed_money |-> seed_money,
                        target_value |-> target_value, investor_profile |-> NoProfile]
            /\ top_etfs' = select_top_etfs(valid_etfs, focus, target_value, seed_money)
            /\ valid_etfs' = sorted_in_place(valid_etfs, focus, target_value, seed_money)
            /\ UNCHANGED <<etf_list, solver, weights, portfolio, warnings, stressVars, rngVars>>

SelectByProfile ==
    \E profile \in Profiles(Focuses), seed_money \in SeedMoneys :
        \E target_value \in Targets(profile.investment_focus) :
            /\ call.op = "none"
            /\ call' = [op |-> "select_etfs_by_profile", pool |-> valid_etfs,
                        investment_focus |-> profile.investment_focus,
                        seed_money |-> seed_money,
                        target_value |-> target_value, investor_profile |-> profile]
            /\ top_etfs' = select_etfs_by_profile(valid_etfs, profile, target_value, seed_money)
            /\ UNCHANGED <<etf_list, valid_etfs, solver, weights, portfolio, warnings,
                           stressVars, rngVars>>

NextSel == SelectTop \/ SelectByProfile

SpecSel == InitSel /\ [][NextSel]_vars

Selected == call.op \in {"select_top_etfs", "select_etfs_by_profile"}

\* the score the profile path gives the asset e of the call's pool
ScoreInCall(e) ==
    profile_score(e, call.investor_profile, call.target_value, call.seed_money)

C22_FallbackReachesThree ==
    (/\ Selected
     /\ call.op = "select_top_etfs"
     /\ call.investment_focus \in {"growth", "balanced"}
     /\ Len(call.pool) >= 3) =>
        Len(top_etfs) >= 3

\* C3 (the claim as stated): for a valid pool of at least 8 assets spanning
\* at least 3 categories the selector returns at most 8 candidates spanning
\* at least 3 categories, on the dividend path, the growth/balanced path and
\* the profile path.
C03_SelectionSpansThreeCategories ==
    (Selected /\ Len(call.pool) >= 8 /\ Cardinality(Categories(call.pool)) >= 3) =>
        (Len(top_etfs) <= 8 /\ Cardinality(Categories(top_etfs)) >= 3)


-----------------------------------------------------------------------------
(* PortfolioAnalyzer.stress_test_portfolio *)

\* sum(p["invest_amount"] for p in portfolio)
InvestOf(pf) == SumSeq([i \in 1..Len(pf) |-> pf[i].invest_amount])

KnownScenarios == {"bear_market", "inflation", "tech_crash", "fed_pivot"}

\* scenarios[s]['market_return'], percent
market_return(s) ==
    CASE s = "bear_market" -> -30
      [] s = "inflation"   -> -15
      [] s = "tech_crash"  -> -20
      [] s = "fed_pivot"   -> 15

\* scenarios[s]['volatility_multiplier'], tenths
volatility_multiplier(s) ==
    CASE s = "bear_market" -> 20
      [] s = "inflation"   -> 15
      [] s = "tech_crash"  -> 18
      [] s = "fed_pivot"   -> 7

\* faulty variant: the bond entry of bear_market with its sign lost
sector_impact_bond_down(s, category) ==
    CASE s = "bear_market" /\ category = "DIV" -> -5
      [] s = "bear_market" /\ category = "GRO" -> -25
      [] s = "bear_market" /\ category = "BND" -> -5
      [] s = "bear_market" /\ category = "CC"  -> -10
      [] s = "bear_market" /\ category = "RE"  -> -20
      [] s = "bear_market" /\ category = "COM" -> 10
      [] OTHER -> 0

\* scenarios[s]['sector_impacts'].get(category, 0), percent
sector_impact(s, category) ==
    CASE s = "bear_market" /\ category = "DIV" -> -5
      [] s = "bear_market" /\ category = "GRO" -> -25
      [] s = "bear_market" /\ category = "BND" -> 5
      [] s = "bear_market" /\ category = "CC"  -> -10
      [] s = "bear_market" /\ category = "RE"  -> -20
      [] s = "bear_market" /\ category = "COM" -> 10
      [] s = "inflation"   /\ category = "DIV" -> -5
      [] s = "inflation"   /\ category = "GRO" -> -20
      [] s = "inflation"   /\ category = "BND" -> -10
      [] s = "inflation"   /\ category = "CC"  -> -5
      [] s = "inflation"   /\ category = "RE"  -> -15
      [] s = "inflation"   /\ category = "COM" -> 20
      [] s = "tech_crash"  /\ category = "DIV" -> 5
      [] s = "tech_crash"  /\ category = "GRO" -> -30
      [] s = "tech_crash"  /\ category = "BND" -> 10
      [] s = "tech_crash"  /\ category = "CC"  -> -5
      [] s = "tech_crash"  /\ category = "RE"  -> 0
      [] s = "tech_crash"  /\ category = "COM" -> 5
      [] s = "fed_pivot"   /\ category = "DIV" -> 5
      [] s = "fed_pivot"   /\ category = "GRO" -> 25
      [] s = "fed_pivot"   /\ category = "BND" -> 10
      [] s = "fed_pivot"   /\ category = "CC"  -> 5
      [] s = "fed_pivot"   /\ category = "RE"  -> 15
      [] s = "fed_pivot"   /\ category = "COM" -> -5
      [] OTHER -> 0

\* the denominator of every impact: percent (market and sector), the
\* reference volatility 0.15 in percent, tenths (the multiplier)
ImpactDen == 100 * 15 * 10

\* faulty variant: the volatility of the holding is not looked at
vol_impact_ignored(p) == 15

\* vol_impact = p['volatility'] / 0.15 when the holding has a volatility,
\* else 1.0; times 15
vol_impact(p) == IF "volatility" \in DOMAIN p THEN p.volatility ELSE 15

\* final_impact = (market_return + sector_impact) * vol_impact * multiplier,
\* times ImpactDen
final_impact(p, s) ==
    (market_return(s) + sector_impact(s, p.category)) * vol_impact(p) * volatility_multiplier(s)

\* one entry of asset_impacts; impact, value_change and new_value times
\* ImpactDen
asset_impact(p, s) ==
    [ticker |-> p.ticker, name |-> p.name, category |-> p.category,
     current_value |-> p.invest_amount,
     impact |-> final_impact(p, s),
     value_change |-> p.invest_amount * final_impact(p, s),
     new_value |-> p.invest_amount * (ImpactDen + final_impact(p, s))]

\* faulty variant: the change subtracted instead of added
new_portfolio_value_minus(total_investment, total_value_change) ==
    total_investment * ImpactDen - total_value_change

\* new_portfolio_value = total_investment + total_value_change, times ImpactDen
new_portfolio_value(total_investment, total_value_change) ==
    total_investment * ImpactDen + total_value_change

\* lines 1051-1099: the computation for a known scenario.  portfolio_impact
\* = total_value_change / total_investment is held as a fraction.  With a
\* total of zero Python's division raises ZeroDivisionError; numpy floats
\* (the amounts build_portfolio computes from a numpy weight vector) give
\* nan instead, held as 0/0.  numpy_amounts says which kind the amounts are;
\* the sum over no holdings is the int 0.
stress_compute(pf, s, numpy_amounts) ==
    LET total_investment   == InvestOf(pf)
        asset_impacts      == [i \in 1..Len(pf) |-> asset_impact(pf[i], s)]
        total_value_change == SumSeq([i \in 1..Len(pf) |-> asset_impacts[i].value_change])
    IN  IF total_investment = 0 /\ (pf = <<>> \/ ~numpy_amounts)
        THEN [status |-> "raised", error |-> "ZeroDivisionError"]
        ELSE [status |-> "ok",
              scenario |-> s,
              portfolio_impact |-> [num |-> total_value_change,
                                    den |-> total_investment * ImpactDen],
              total_investment |-> total_investment,
              total_value_change |-> total_value_change,
              new_portfolio_value |-> new_portfolio_value(total_investment, total_value_change),
              asset_impacts |-> asset_impacts]

\* faulty variant: the scenario is not looked up before the computation starts
stress_test_unguarded(pf, s, numpy_amounts) ==
    IF s \notin KnownScenarios
    THEN [status |-> "ok", scenario |-> s,
          portfolio_impact |-> [num |-> 0, den |-> 0],
          total_investment |-> InvestOf(pf),
          total_value_change |-> 0,
          new_portfolio_value |-> 0,
          asset_impacts |-> <<>>]
    ELSE stress_compute(pf, s, numpy_amounts)

\* if scenario not in scenarios: return {'error': ...}
stress_test_portfolio(pf, s, numpy_amounts) ==
    IF s \notin KnownScenarios
    THEN [status |-> "error", error |-> s]
    ELSE stress_compute(pf, s, numpy_amounts)

-----------------------------------------------------------------------------
(* The stress test on its own (specification SpecStress) *)

\* holdings per portfolio of the stress runs
MaxHoldings == 2

StressTicker(c) == CASE c = "BND" -> "AGG" [] c = "GRO" -> "VUG" [] OTHER -> "VOO"

\* holdings as build_portfolio makes them, and holdings without a volatility
StressHoldings ==
    {[ticker |-> StressTicker(c), name |-> StressTicker(c), category |-> c,
      invest_amount |-> a, volatility |-> v] :
        c \in {"BND", "GRO", "LC"}, a \in {0, 100, 300}, v \in {6, 40}}
    \cup
    {[ticker |-> StressTicker(c), name |-> StressTicker(c), category |-> c,
      invest_amount |-> a] :
        c \in {"BND", "GRO", "LC"}, a \in {0, 100, 300}}

StressPortfolios ==
    UNION {[1..n -> StressHoldings] : n \in 0..MaxHoldings}

ScenarioNames == KnownScenarios \cup {"recession", ""}

InitStress ==
    /\ portfolio \in StressPortfolios
    /\ etf_list = <<>>
    /\ call = NoCall
    /\ valid_etfs = <<>>
    /\ top_etfs = <<>>
    /\ solver = NotCalled
    /\ weights = <<>>
    /\ warnings = <<>>
    /\ stress_in = NoStress
    /\ stress_out = NoStress
    /\ rng = Seeded(0)
    /\ proc = IdleProc
    /\ history = NoHistory

StressTest ==
    \E scenario \in ScenarioNames, numpy_amounts \in BOOLEAN :
        /\ stress_in.op = "none"
        /\ stress_in' = [op |-> "stress_test_portfolio", scenario |-> scenario,
                         numpy_amounts |-> numpy_amounts]
        /\ stress_out' = stress_test_portfolio(portfolio, scenario, numpy_amounts)
        /\ UNCHANGED <<optVars, rngVars>>

NextStress == StressTest

SpecStress == InitStress /\ [][NextStress]_vars

Stressed == stress_in.op = "stress_test_portfolio"

\* C8: with a scenario name outside the four, the result is an error naming
\* the scenario and nothing else: no per-asset impact, no totals, for any
\* portfolio, the empty one included.
C08_UnknownScenarioIsError ==
    (Stressed /\ stress_in.scenario \notin KnownScenarios) =>
        /\ stress_out.status = "error"
        /\ stress_out.error = stress_in.scenario
        /\ DOMAIN stress_out = {"status", "error"}

C08_Witness ==
    /\ Stressed
    /\ stress_in.scenario = "recession"
    /\ portfolio = <<>>
    /\ stress_out.status = "error"

C24_AssetImpactFormula ==
    (Stressed /\ stress_out.status = "ok") =>
        LET s == stress_in.scenario
            a == stress_out.asset_impacts
        IN  /\ s \in KnownScenarios
            /\ Len(a) = Len(portfolio)
            /\ \A i \in DOMAIN portfolio :
                  LET p     == portfolio[i]
                      shock == IF p.category \in {"DIV", "GRO", "BND", "CC", "RE", "COM"}
                               THEN sector_impact(s, p.category) ELSE 0
                      vol   == IF "volatility" \in DOMAIN p THEN p.volatility ELSE 15
                  IN  /\ a[i].ticker = p.ticker
                      /\ a[i].impact = (market_return(s) + shock) * vol * volatility_multiplier(s)
                      /\ a[i].value_change = p.invest_amount * a[i].impact
                      /\ a[i].new_value = p.invest_amount * ImpactDen + a[i].value_change
            /\ stress_out.portfolio_impact.num =
                  SumSeq([i \in DOMAIN a |-> a[i].value_change])
            /\ stress_out.portfolio_impact.den = InvestOf(portfolio) * ImpactDen

\* a stressed portfolio of a bond holding with a volatility above 0.15 and a
\* large-cap holding without one, both funded
C24_Witness ==
    /\ Stressed
    /\ stress_out.status = "ok"
    /\ Len(portfolio) = 2
    /\ portfolio[1].category = "BND" /\ "volatility" \in DOMAIN portfolio[1]
    /\ portfolio[1].volatility > 15 /\ portfolio[1].invest_amount > 0
    /\ portfolio[2].category = "LC" /\ "volatility" \notin DOMAIN portfolio[2]
    /\ portfolio[2].invest_amount > 0
    /\ stress_out.asset_impacts[2].impact =
          market_return(stress_in.scenario) * 15 * volatility_multiplier(stress_in.scenario)

AllOf(pf, c) == pf # <<>> /\ \A i \in 1..Len(pf) : pf[i].category = c

\* sum of invested amount times volatility (0.15 for a holding without one)
VolWeighted(pf) == SumSeq([i \in 1..Len(pf) |-> pf[i].invest_amount * vol_impact(pf[i])])

\* the all-bond portfolio of this state was stressed under bear_market
BondBearCase ==
    /\ Stressed
    /\ stress_in.scenario = "bear_market"
    /\ stress_out.status = "ok"
    /\ AllOf(portfolio, "BND")
    /\ InvestOf(portfolio) > 0

\* the impact of the state's portfolio is strictly above that of g; the two
\* have one total, hence one denominator
LessNegativeThan(g) ==
    LET other == stress_test_portfolio(g, "bear_market", stress_in.numpy_amounts)
    IN  /\ other.status = "ok"
        /\ other.portfolio_impact.den = stress_out.portfolio_impact.den
        /\ stress_out.portfolio_impact.num > other.portfolio_impact.num

\* C10 (the claim as stated): under bear_market an all-bond portfolio has a
\* portfolio impact strictly less negative than any all-growth portfolio of
\* equal total size, whatever the holdings and their volatilities.
C10_BondBeatsGrowthAnyVolatility ==
    BondBearCase =>
        \A g \in StressPortfolios :
            (AllOf(g, "GRO") /\ InvestOf(g) = InvestOf(portfolio)) => LessNegativeThan(g)

\* C10 (amended): the same, for the all-growth portfolios g of equal total
\* size such that 5 times the bond portfolio's sum of amount * volatility is
\* below 11 times that of g (0.25 * bond volatility < 0.55 * growth
\* volatility, amount-weighted).
C10_BondBeatsGrowthBoundedVolatility ==
    BondBearCase =>
        \A g \in StressPortfolios :
            (/\ AllOf(g, "GRO")
             /\ InvestOf(g) = InvestOf(portfolio)
             /\ 5 * VolWeighted(portfolio) < 11 * VolWeighted(g)) => LessNegativeThan(g)

\* a bond portfolio more volatile than a growth portfolio of the same size
\* that it still beats
C10_Witness ==
    /\ BondBearCase
    /\ \E g \in StressPortfolios :
          /\ AllOf(g, "GRO")
          /\ InvestOf(g) = InvestOf(portfolio)
          /\ VolWeighted(g) < VolWeighted(portfolio)
          /\ 5 * VolWeighted(portfolio) < 11 * VolWeighted(g)
          /\ LessNegativeThan(g)


-----------------------------------------------------------------------------
(* Fixed-point arithmetic of the stochastic operations: returns and growth  *)
(* factors are held in thousandths, rounded down after each product.        *)

\* acc * (1 + s[1]) * (1 + s[2]) * ..., left to right
RECURSIVE CompoundFrom(_, _)
CompoundFrom(acc, s) ==
    IF s = <<>> THEN acc
    ELSE CompoundFrom((acc * (1000 + Head(s))) \div 1000, Tail(s))

\* k successive np.random.normal(0, 1) draws from generator state r
GaussDraws(r, k) == [i \in 1..k |-> Gauss(Advance(r, i - 1))]

\* faulty variant: the simulated returns are left in simulation order
percentile_unsorted(s) == s

\* np.percentile orders the sample it is given
SortAsc(s) == StableSortBy(s, [a, b \in Range(s) |-> a < b])

-----------------------------------------------------------------------------
(* ETFDataManager.generate_mock_data *)

\* self.tickers, cut down to three entries of three categories
Tickers ==
    << [ticker |-> "SCHD", category |-> "DIV", risk_level |-> 3],
       [ticker |-> "BND",  category |-> "BND", risk_level |-> 2],
       [ticker |-> "JEPI", category |-> "CC",  risk_level |-> 4] >>

\* div_yields.get(category, 0.02), thousandths
mock_div_yield(category) ==
    CASE category = "DIV" -> 30 [] category = "CC" -> 80 [] category = "BND" -> 40
      [] category = "LC" -> 15 [] category = "GRO" -> 5 [] category = "RE" -> 35
      [] category = "INT" -> 25 [] category = "COM" -> 0 [] OTHER -> 20

\* returns.get(category, 0.07), thousandths
mock_return(category) ==
    CASE category = "DIV" -> 80 [] category = "CC" -> 60 [] category = "BND" -> 40
      [] category = "LC" -> 100 [] category = "GRO" -> 120 [] category = "RE" -> 70
      [] category = "INT" -> 70 [] category = "COM" -> 50 [] OTHER -> 70

\* the number of np.random.random() calls for one ticker: six, and the
\* conditional ones of dividend_quality, dividend_growth, dividend_consistency
mock_draws(category) ==
    6 + (IF category \in {"DIV", "CC"} THEN 2 ELSE 0) + (IF category = "DIV" THEN 1 ELSE 0)

\* the record of one ticker when the generator is in state r; u(k) is the
\* k-th draw, in sixteenths
mock_record(info, r) ==
    LET u(k) == Uniform(Advance(r, k - 1))
        dividend_yield == (mock_div_yield(info.category) * (72 + u(1))) \div 80
        cagr_1y == (mock_return(info.category) * (32 + u(2))) \div 40
        volatility == (8 * info.risk_level * (32 + u(5))) \div 200
        dividend_quality == IF info.category \in {"DIV", "CC"}
                            THEN (7 * u(7) + 48) \div 16 ELSE 2
    IN  Asset(info.ticker, info.category, info.risk_level, dividend_yield,
              dividend_yield, cagr_1y, volatility, dividend_quality)

RECURSIVE generate_mock_data(_, _)
\* the records of the tickers and the state the generator is left in; no
\* seed is set here
generate_mock_data(tickers, r) ==
    IF tickers = <<>> THEN [data |-> <<>>, rng |-> r]
    ELSE LET rest == generate_mock_data(Tail(tickers),
                         Advance(r, mock_draws(Head(tickers).category)))
         IN  [data |-> <<mock_record(Head(tickers), r)>> \o rest.data,
              rng  |-> rest.rng]

-----------------------------------------------------------------------------
(* PortfolioAnalyzer.backtest_portfolio, generate_synthetic_backtest *)

\* datetime.strptime(text, "%Y-%m-%d"): a date is held as the parsed value,
\* midnight of the day
Date(y, m, d) == [year |-> y, month |-> m, day |-> d]

\* faulty variant: current < end
DateLt(a, b) ==
    \/ a.year < b.year
    \/ a.year = b.year /\ a.month < b.month
    \/ a.year = b.year /\ a.month = b.month /\ a.day < b.day

\* current <= end on two datetime values
DateLeq(a, b) ==
    \/ a.year < b.year
    \/ a.year = b.year /\ a.month < b.month
    \/ a.year = b.year /\ a.month = b.month /\ a.day <= b.day

\* lines 845-848: the first day of the following month
next_month(current) ==
    IF current.month = 12 THEN Date(current.year + 1, 1, 1)
    ELSE Date(current.year, current.month + 1, 1)

Digits == <<"0", "1", "2", "3", "4", "5", "6", "7", "8", "9">>

TwoDigits(n) == Digits[(n \div 10) + 1] \o Digits[(n % 10) + 1]

\* current.strftime("%Y-%m")
strftime(d) == TwoDigits(d.year \div 100) \o TwoDigits(d.year % 100) \o "-" \o TwoDigits(d.month)

\* datetime(year, month, 1) raises ValueError for a year outside
\* MINYEAR..MAXYEAR of the datetime module, 1..9999
datetime_valid(d) == d.year \in 1..9999

\* the while loop of lines 842-848 from the state (current, months): the
\* months collected, and whether line 846 raised
RECURSIVE months_from(_, _, _)
months_from(current, end, months) ==
    IF DateLeq(current, end)
    THEN IF datetime_valid(next_month(current))
         THEN months_from(next_month(current), end, Append(months, strftime(current)))
         ELSE [raised |-> TRUE, months |-> Append(months, strftime(current))]
    ELSE [raised |-> FALSE, months |-> months]

\* lines 838-848: the months from start to end
months_between(start_date, end_date) ==
    months_from(start_date, end_date, <<>>).months

\* market_events.get(month), thousandths
market_event(month) ==
    CASE month = "2018-02" -> -40  [] month = "2018-10" -> -70
      [] month = "2020-03" -> -200 [] month = "2020-04" -> 100
      [] month = "2020-05" -> 50   [] month = "2021-01" -> 50
      [] month = "2022-01" -> -50  [] month = "2022-06" -> -80
      [] month = "2023-03" -> -30  [] month = "2023-07" -> 50
      [] OTHER -> 0

\* category_events.get(category, {}).get(month), thousandths
category_event(category, month) ==
    CASE month = "2020-03" ->
            (CASE category = "DIV" -> -150 [] category = "CC" -> -100
               [] category = "BND" -> -50  [] category = "LC" -> -200
               [] category = "GRO" -> -250 [] category = "RE" -> -300
               [] category = "INT" -> -250 [] category = "COM" -> -100
               [] OTHER -> 0)
      [] month = "2022-01" ->
            (CASE category = "DIV" -> 20   [] category = "CC" -> 30
               [] category = "BND" -> -100 [] category = "LC" -> -80
               [] category = "GRO" -> -150 [] category = "RE" -> -100
               [] category = "INT" -> -50  [] category = "COM" -> 100
               [] OTHER -> 0)
      [] month = "2023-07" /\ category = "GRO" -> 100
      [] OTHER -> 0

\* the letters of a ticker: strings are atoms here, and the rules below look
\* inside them
Spell(ticker) ==
    CASE ticker = "SCHD" -> <<"S", "C", "H", "D">>
      [] ticker = "BND" -> <<"B", "N", "D">>
      [] ticker = "USO" -> <<"U", "S", "O">>
      [] ticker = "VYM" -> <<"V", "Y", "M">>
      [] ticker = "VIG" -> <<"V", "I", "G">>
      [] ticker = "NEW" -> <<"N", "E", "W">>
      [] ticker = "VUG" -> <<"V", "U", "G">>
      [] ticker = "DVY" -> <<"D", "V", "Y">>
      [] ticker = "HDV" -> <<"H", "D", "V">>
      [] ticker = "NOBL" -> <<"N", "O", "B", "L">>
      [] ticker = "JEPI" -> <<"J", "E", "P", "I">>
      [] ticker = "QYLD" -> <<"Q", "Y", "L", "D">>
      [] ticker = "ARKK" -> <<"A", "R", "K", "K">>
      [] ticker = "AGG" -> <<"A", "G", "G">>
      [] ticker = "VOO" -> <<"V", "O", "O">>
      [] ticker = "XYLD" -> <<"X", "Y", "L", "D">>
      [] ticker = "TLT" -> <<"T", "L", "T">>
      [] ticker = "EDGE" -> <<"E", "D", "G", "E">>
      [] ticker = "NOEXP" -> <<"N", "O", "E", "X", "P">>
      [] ticker = "DIVO" -> <<"D", "I", "V", "O">>
      [] ticker = "SDIV" -> <<"S", "D", "I", "V">>
      [] ticker = "BNDX" -> <<"B", "N", "D", "X">>
      [] ticker = "TIP" -> <<"T", "I", "P">>
      [] ticker = "QQQM" -> <<"Q", "Q", "Q", "M">>
      [] ticker = "VNQ" -> <<"V", "N", "Q">>
      [] ticker = "SCHH" -> <<"S", "C", "H", "H">>
      [] ticker = "VXUS" -> <<"V", "X", "U", "S">>
      [] ticker = "EFA" -> <<"E", "F", "A">>
      [] ticker = "GLD" -> <<"G", "L", "D">>
      [] ticker = "SLV" -> <<"S", "L", "V">>
      [] ticker = "VYMI" -> <<"V", "Y", "M", "I">>
      [] ticker = "DIV" -> <<"D", "I", "V">>
      [] ticker = "QQQ" -> <<"Q", "Q", "Q">>

\* pat in text
Contains(text, pat) ==
    \E i \in 1..(Len(text) - Len(pat) + 1) : SubSeq(text, i, i + Len(pat) - 1) = pat

\* faulty variant: the covered-call rule is tried before the dividend rule
category_of_text_cc_first(text) ==
    IF Contains(text, <<"J", "E", "P", "I">>) \/ Contains(text, <<"Q", "Y", "L", "D">>) \/ Contains(text, <<"D", "I", "V", "O">>) THEN "CC"
    ELSE IF Contains(text, <<"D", "I", "V">>) \/ Contains(text, <<"V", "Y", "M">>) \/ Contains(text, <<"S", "C", "H", "D">>) THEN "DIV"
    ELSE IF Contains(text, <<"B", "N", "D">>) \/ Contains(text, <<"A", "G", "G">>) \/ Contains(text, <<"T", "I", "P">>) THEN "BND"
    ELSE IF Contains(text, <<"Q", "Q", "Q">>) \/ Contains(text, <<"A", "R", "K", "K">>) \/ Contains(text, <<"V", "U", "G">>) THEN "GRO"
    ELSE IF Contains(text, <<"V", "N", "Q">>) \/ Contains(text, <<"S", "C", "H", "H">>) THEN "RE"
    ELSE IF Contains(text, <<"V", "X", "U", "S">>) \/ Contains(text, <<"E", "F", "A">>) THEN "INT"
    ELSE IF Contains(text, <<"G", "L", "D">>) \/ Contains(text, <<"S", "L", "V">>) THEN "COM"
    ELSE "LC"

\* the if / elif chain of lines 883-898
category_of_text(text) ==
    IF Contains(text, <<"D", "I", "V">>) \/ Contains(text, <<"V", "Y", "M">>) \/ Contains(text, <<"S", "C", "H", "D">>) THEN "DIV"
    ELSE IF Contains(text, <<"J", "E", "P", "I">>) \/ Contains(text, <<"Q", "Y", "L", "D">>) \/ Contains(text, <<"D", "I", "V", "O">>) THEN "CC"
    ELSE IF Contains(text, <<"B", "N", "D">>) \/ Contains(text, <<"A", "G", "G">>) \/ Contains(text, <<"T", "I", "P">>) THEN "BND"
    ELSE IF Contains(text, <<"Q", "Q", "Q">>) \/ Contains(text, <<"A", "R", "K", "K">>) \/ Contains(text, <<"V", "U", "G">>) THEN "GRO"
    ELSE IF Contains(text, <<"V", "N", "Q">>) \/ Contains(text, <<"S", "C", "H", "H">>) THEN "RE"
    ELSE IF Contains(text, <<"V", "X", "U", "S">>) \/ Contains(text, <<"E", "F", "A">>) THEN "INT"
    ELSE IF Contains(text, <<"G", "L", "D">>) \/ Contains(text, <<"S", "L", "V">>) THEN "COM"
    ELSE "LC"

\* the category guessed from the ticker's text (lines 882-898)
ticker_category(ticker) == category_of_text(Spell(ticker))

\* base_return of the category, thousandths per month
base_return(category) ==
    CASE category = "DIV" -> 6 [] category = "CC" -> 5 [] category = "BND" -> 3
      [] category = "LC" -> 7 [] category = "GRO" -> 10 [] category = "RE" -> 6
      [] category = "INT" -> 6 [] category = "COM" -> 3 [] OTHER -> 7

\* base_vol of the category, thousandths per month
base_vol(category) ==
    CASE category = "DIV" -> 30 [] category = "CC" -> 25 [] category = "BND" -> 10
      [] category = "LC" -> 40 [] category = "GRO" -> 60 [] category = "RE" -> 50
      [] category = "INT" -> 45 [] category = "COM" -> 40 [] OTHER -> 40

\* the largest (peak - value) / peak along the cumulative series
RECURSIVE MaxDrawdown(_, _, _)
MaxDrawdown(values, peak, worst) ==
    IF values = <<>> THEN worst
    ELSE LET value == Head(values)
             peak2 == Max(peak, value)
             dd    == ((peak2 - value) * 1000) \div peak2
         IN  MaxDrawdown(Tail(values), peak2, Max(worst, dd))

\* lines 943-945: the list that starts as [1.0] and grows by its last value
\* times (1 + ret) for each monthly return
RECURSIVE RunningProducts(_, _)
RunningProducts(acc, rets) ==
    IF rets = <<>> THEN acc
    ELSE RunningProducts(Append(acc, (acc[Len(acc)] * (1000 + Head(rets))) \div 1000),
                         Tail(rets))

\* faulty variant: the initial value stays at the head of the series
cumulative_with_initial(portfolio_returns) ==
    SubSeq(RunningProducts(<<1000>>, portfolio_returns), 1, Len(portfolio_returns))

\* lines 943-946: the running products with the initial value removed
cumulative_of(portfolio_returns) ==
    Tail(RunningProducts(<<1000>>, portfolio_returns))

\* faulty variant: the peak starts at the initial value 1.0
max_drawdown_from_initial(cumulative_returns) ==
    MaxDrawdown(cumulative_returns, 1000, 0)

\* lines 957-965: the peak starts at the first value of the series
max_drawdown_of(cumulative_returns) ==
    MaxDrawdown(cumulative_returns, cumulative_returns[1], 0)

\* lines 900-985 from the draws zs, one per ticker and month in the order of
\* the two loops.  annualized_return, annualized_vol and sharpe_ratio are
\* roots and quotients of the portfolio_returns carried in return_series and
\* are not carried.  With no month, cumulative_returns[-1] raises IndexError.
backtest_of_draws(tickers, ws, months, zs) ==
    LET k == Len(months)
        category(j) == ticker_category(tickers[j])
        ticker_return(j, i) ==
            base_return(category(j)) + zs[(j - 1) * k + i] * base_vol(category(j))
            + market_event(months[i]) + category_event(category(j), months[i])
        portfolio_returns ==
            [i \in 1..k |->
                SumSeq([j \in 1..Len(tickers) |-> ws[j] * ticker_return(j, i)]) \div WDen]
        cumulative_returns == cumulative_of(portfolio_returns)
        \* monthly_rf, (1.03)^(1/12) - 1 = 0.00247, in thousandths
        excess_returns == [i \in 1..k |-> portfolio_returns[i] - 2]
        \* np.std(excess_returns) squared, times k * k
        excess_variance ==
            k * SumSeq([i \in 1..k |-> excess_returns[i] * excess_returns[i]])
            - SumSeq(excess_returns) * SumSeq(excess_returns)
    IN  \* line 949: cumulative_returns[-1] of an empty list
        IF k = 0 THEN [status |-> "raised", error |-> "IndexError"]
        ELSE [status |-> "ok",
              return_series |-> [i \in 1..k |->
                  [date |-> months[i], return |-> portfolio_returns[i],
                   cumulative |-> cumulative_returns[i]]],
              total_return |-> cumulative_returns[k] - 1000,
              max_drawdown |-> max_drawdown_of(cumulative_returns),
              \* line 971: mean / std of the excess returns; numpy divides by a
              \* zero std without raising, the ratio is then inf or nan
              sharpe_ratio |-> [excess_sum |-> SumSeq(excess_returns),
                                variance   |-> excess_variance,
                                finite     |-> excess_variance # 0]]

\* np.random.seed(42) at line 878, then one normal draw per ticker and month
generate_synthetic_backtest(tickers, ws, start_date, end_date, r) ==
    LET months == months_between(start_date, end_date)
        draws  == Len(tickers) * Len(months)
    IN  IF months_from(start_date, end_date, <<>>).raised
        THEN [data |-> [status |-> "raised", error |-> "ValueError"], rng |-> r]
        ELSE [data |-> backtest_of_draws(tickers, ws, months, GaussDraws(Seeded(42), draws)),
              rng  |-> Advance(Seeded(42), draws)]

\* faulty variant: the weights are read by popping them off the holdings
backtest_popping_weights(pf, start_date, end_date, r) ==
    generate_synthetic_backtest([i \in 1..Len(pf) |-> pf[i].ticker],
                                [i \in 1..Len(pf) |-> pf[i].weight],
                                start_date, end_date, r)
    @@ [portfolio |-> [i \in 1..Len(pf) |-> [pf[i] EXCEPT !.weight = 0]]]

\* end_date = None is replaced by today's month before the call below, so
\* the end date is an input here
\* portfolio: the list passed in as the call leaves it; the two
\* comprehensions of lines 828-829 read it into new lists
backtest_portfolio(pf, start_date, end_date, r) ==
    generate_synthetic_backtest([i \in 1..Len(pf) |-> pf[i].ticker],
                                [i \in 1..Len(pf) |-> pf[i].weight],
                                start_date, end_date, r)
    @@ [portfolio |-> pf]


-----------------------------------------------------------------------------
(* PortfolioAnalyzer.monte_carlo_simulation *)

\* the days a simulated year is cut into (252 in the source)
TradingDays == 2

\* mean_daily, the annual return spread over the days of the year (the
\* source takes the root of 1 + annual_return), thousandths
mean_daily(p) == Get(p, "annual_return", 70) \div TradingDays

\* daily_vol, the annual volatility scaled down to a day (the source divides
\* by the square root of the days), thousandths
daily_vol(p) == (Get(p, "volatility", 15) * 10) \div TradingDays

\* np.random.normal draws of one call: one per simulation, year, day, holding
monte_carlo_draws(pf, n_sim, years) == n_sim * years * TradingDays * Len(pf)

\* the result for no simulation: return None
NoResult == [status |-> "none"]

\* a * b / c rounded down, without forming a * b
MulDiv(a, b, c) == (a \div c) * b + ((a % c) * b) \div c

\* faulty variant: every holding counts with the same weight
monthly_dividend_equal_weights(pf) ==
    SumSeq([h \in 1..Len(pf) |-> (WDen \div Len(pf)) * Get(pf[h], "dividend_yield", 0)])

\* lines 1173-1175: the sum of weight * dividend_yield (/ 12) over the
\* holdings, in thousandths times WDen
monthly_dividend_of(pf) ==
    SumSeq([h \in 1..Len(pf) |-> pf[h].weight * Get(pf[h], "dividend_yield", 0)])

\* lines 1109-1190 from the draws zs, in the order of the four loops.
\* std_dev is carried as its square; np.percentile interpolates linearly
\* between the two nearest order statistics.
monte_carlo_of_draws(pf, n_sim, years, zs) ==
    LET n == Len(pf)
        total_invest == InvestOf(pf)
        w(h) == (pf[h].invest_amount * 1000) \div total_invest
        z(s, y, d, h) == zs[(((s - 1) * years + (y - 1)) * TradingDays + (d - 1)) * n + h]
        daily_return_port(s, y, d) ==
            SumSeq([h \in 1..n |->
                (mean_daily(pf[h]) + daily_vol(pf[h]) * z(s, y, d, h)) * w(h)]) \div 1000
        yearly_return(s, y) ==
            CompoundFrom(1000, [d \in 1..TradingDays |-> daily_return_port(s, y, d)])
        final_return(s) ==
            CompoundFrom(1000, [y \in 1..years |-> yearly_return(s, y) - 1000]) - 1000
        annual_data == [s \in 1..n_sim |-> final_return(s)]
        mean_return == SumSeq(annual_data) \div n_sim
        sorted == SortAsc(annual_data)
        percentile(q) ==
            LET pos == (n_sim - 1) * q
                lo  == (pos \div 100) + 1
                fr  == pos % 100
            IN  IF fr = 0 THEN sorted[lo]
                ELSE sorted[lo] + ((sorted[lo + 1] - sorted[lo]) * fr) \div 100
        percentiles == [q \in {5, 25, 50, 75, 95} |-> percentile(q)]
        monthly_dividend == monthly_dividend_of(pf)
    IN  [status |-> "ok",
         simulations |-> n_sim,
         years |-> years,
         initial_investment |-> total_invest,
         mean_return |-> mean_return,
         std_dev_squared |->
             SumSeq([s \in 1..n_sim |->
                 (annual_data[s] - mean_return) * (annual_data[s] - mean_return)]) \div n_sim,
         percentiles |-> percentiles,
         percentile_values |-> [q \in {5, 25, 50, 75, 95} |-> total_invest * (1000 + percentiles[q])],
         expected_monthly_dividend |-> MulDiv(total_invest, monthly_dividend, WDen),
         monthly_dividend_per_10m |-> MulDiv(monthly_dividend, 10000, WDen),
         sim_returns |-> annual_data]

\* faulty variant: the seed is set before the total is looked at
monte_carlo_seed_first(pf, n_sim, years, r) ==
    IF InvestOf(pf) <= 0 THEN [data |-> NoResult, rng |-> Seeded(42), portfolio |-> pf]
    ELSE LET draws == monte_carlo_draws(pf, n_sim, years)
         IN  [data |-> monte_carlo_of_draws(pf, n_sim, years, GaussDraws(Seeded(42), draws)),
              rng  |-> Advance(Seeded(42), draws),
              portfolio |-> pf]

\* faulty variant: the sampling goes on from the generator's current state
monte_carlo_unseeded(pf, n_sim, years, r) ==
    IF InvestOf(pf) <= 0 THEN [data |-> NoResult, rng |-> r, portfolio |-> pf]
    ELSE LET draws == monte_carlo_draws(pf, n_sim, years)
         IN  [data |-> monte_carlo_of_draws(pf, n_sim, years, GaussDraws(r, draws)),
              rng  |-> Advance(r, draws),
              portfolio |-> pf]

\* if total_invest <= 0: return None;  np.random.seed(42) at line 1121;
\* the simulation.  portfolio: the list passed in as the call leaves it, the
\* loops of lines 1103-1118 only read the holdings
monte_carlo_simulation(pf, n_sim, years, r) ==
    IF InvestOf(pf) <= 0 THEN [data |-> NoResult, rng |-> r, portfolio |-> pf]
    ELSE LET draws == monte_carlo_draws(pf, n_sim, years)
         IN  [data |-> monte_carlo_of_draws(pf, n_sim, years, GaussDraws(Seeded(42), draws)),
              rng  |-> Advance(Seeded(42), draws),
              portfolio |-> pf]

-----------------------------------------------------------------------------
(* The stochastic operations called one after another (specification       *)
(* SpecSeq): each call runs to its end before the next starts, and the      *)
(* catalog may be regenerated, drawing without a seed, between any two.     *)

\* calls per run
MaxCalls == 3

\* the candidate lists the analysed portfolio is built from
RngPools == {<<>>, <<Universe[7]>>, <<Universe[1], Universe[7]>>}

\* the capital the analysed portfolio was built with
RngSeedMoneys == {0, 8400}

NumPortfolios == {1, DefaultNumPortfolios}
StartDates == {Date(2020, 2, 15)}
EndDates == {Date(2020, 1, 31), Date(2020, 4, 30)}
SimCounts == {1, 2}
Years == {2}

\* the scenarios of the stress calls (the default one)
StressScenarios == <<"bear_market">>

NoLog == [first |-> <<>>, calls |-> 0]

InitRng ==
    /\ top_etfs \in RngPools
    /\ weights = initial_weights(Len(top_etfs))
    /\ \E seed_money \in RngSeedMoneys :
          portfolio = build_portfolio(top_etfs, weights, seed_money)
    /\ etf_list = <<>>
    /\ call = NoCall
    /\ valid_etfs = <<>>
    /\ solver = NotCalled
    /\ warnings = <<>>
    /\ stress_in = NoStress
    /\ stress_out = NoStress
    /\ rng = Seeded(0)

InitSeq ==
    /\ InitRng
    /\ proc = NoCall
    /\ history = NoLog

\* the call c returned out: it becomes the last call, and the first result
\* of c is kept.  disturbed: the generator was not, when c started, in the
\* state c leaves it in, so something else has drawn since c last ran.
\* out.portfolio is the portfolio list as the call leaves it
Record(c, out) ==
    /\ history.calls < MaxCalls
    /\ proc' = [op |-> "call", call |-> c, result |-> out.data, disturbed |-> rng # out.rng]
    /\ history' =
          [first |-> IF c \in DOMAIN history.first
                     THEN [history.first EXCEPT ![c].times = @ + 1]
                     ELSE history.first @@
                          (c :> [result |-> out.data, times |-> 1]),
           calls |-> history.calls + 1]
    /\ rng' = out.rng
    /\ portfolio' = out.portfolio
    /\ UNCHANGED <<etf_list, call, valid_etfs, top_etfs, solver, weights, warnings, stressVars>>

\* the frontier is sampled from the candidates, not from the portfolio
CallFrontier ==
    \E num_portfolios \in NumPortfolios :
        Record([op |-> "generate_efficient_frontier", args |-> <<num_portfolios>>],
               generate_efficient_frontier(top_etfs, num_portfolios, rng)
               @@ [portfolio |-> portfolio])

\* the stress test page: a scenario of the selectbox.
\* The amounts of a built portfolio are numpy floats.  asset_impacts is a
\* list of new dictionaries (lines 1075-1086), the holdings are only read
CallStress ==
    \E i \in DOMAIN StressScenarios :
        Record([op |-> "stress_test_portfolio", args |-> <<i>>],
               [data |-> stress_test_portfolio(portfolio, StressScenarios[i], TRUE),
                rng |-> rng,
                portfolio |-> portfolio])

CallBacktest ==
    \E start_date \in StartDates, end_date \in EndDates :
        Record([op |-> "backtest_portfolio", args |-> <<start_date, end_date>>],
               backtest_portfolio(portfolio, start_date, end_date, rng))

CallMonteCarlo ==
    \E n_sim \in SimCounts, years \in Years :
        Record([op |-> "monte_carlo_simulation", args |-> <<n_sim, years>>],
               monte_carlo_simulation(portfolio, n_sim, years, rng))

\* load_etf_data(force_update=True): the catalog is regenerated
UpdateData ==
    LET out == generate_mock_data(Tickers, rng)
    IN  /\ etf_list' = out.data
        /\ rng' = out.rng
        /\ UNCHANGED <<call, valid_etfs, top_etfs, solver, weights, portfolio, warnings,
                       stressVars, proc, history>>

NextSeq == CallFrontier \/ CallBacktest \/ CallStress \/ CallMonteCarlo \/ UpdateData

SpecSeq == InitSeq /\ [][NextSeq]_vars

\* C11: a Monte Carlo simulation on a portfolio whose invested amounts total
\* zero or less (the empty portfolio included) returns the null result, and
\* the generator is in the state it was in before the call: no seed was
\* set and nothing was drawn.
C11_ZeroCapitalReturnsNone ==
    (/\ proc.op = "call"
     /\ proc.call.op = "monte_carlo_simulation"
     /\ InvestOf(portfolio) <= 0) =>
        (proc.result = NoResult /\ ~proc.disturbed)

\* the null result for a portfolio of two holdings with nothing invested
C11_Witness ==
    /\ proc.op = "call"
    /\ proc.call.op = "monte_carlo_simulation"
    /\ Len(portfolio) = 2
    /\ InvestOf(portfolio) = 0
    /\ proc.result = NoResult
    /\ rng # Seeded(42)

C13_PercentilesOrdered ==
    (/\ proc.op = "call"
     /\ proc.call.op = "monte_carlo_simulation"
     /\ InvestOf(portfolio) > 0) =>
        /\ proc.result.status = "ok"
        /\ \A q1, q2 \in {5, 25, 50, 75, 95} :
              q1 <= q2 =>
                 /\ proc.result.percentiles[q1] <= proc.result.percentiles[q2]
                 /\ proc.result.percentile_values[q1] <= proc.result.percentile_values[q2]

\* a run of two simulations whose second return is below its first, and
\* whose percentiles are spread out
C13_Witness ==
    /\ proc.op = "call"
    /\ proc.call.op = "monte_carlo_simulation"
    /\ InvestOf(portfolio) > 0
    /\ proc.result.status = "ok"
    /\ proc.result.simulations >= 2
    /\ proc.result.sim_returns[2] < proc.result.sim_returns[1]
    /\ proc.result.percentiles[5] < proc.result.percentiles[25]
    /\ proc.result.percentiles[75] < proc.result.percentiles[95]
    /\ proc.result.percentile_values[5] < proc.result.percentile_values[95]

\* C14: no analysis changes the portfolio it is given: across every step of
\* every sequence of backtests, stress tests and Monte Carlo simulations the
\* holdings, their fields and their order stay as they were.
C14_AnalysisLeavesPortfolio == [][portfolio' = portfolio]_vars

\* a funded portfolio of two holdings after a backtest, a stress test and a
\* Monte Carlo simulation, each of which returned a result
C14_Witness ==
    /\ Len(portfolio) = 2
    /\ InvestOf(portfolio) > 0
    /\ history.calls = 3
    /\ \A o \in {"backtest_portfolio", "stress_test_portfolio", "monte_carlo_simulation"} :
          \E c \in DOMAIN history.first :
              c.op = o /\ history.first[c].result.status = "ok"

\* C7: a frontier sampling, a backtest or a Monte Carlo simulation called
\* again with the inputs of an earlier call returns the result the earlier
\* call returned, whatever ran in between and whatever state the generator
\* was left in.
C07_SameInputsSameResult ==
    proc.op = "call" => proc.result = history.first[proc.call].result

\* a Monte Carlo simulation repeated after the catalog was regenerated, from
\* a generator state other than the one its first call left
C07_Witness ==
    /\ proc.op = "call"
    /\ proc.call.op = "monte_carlo_simulation"
    /\ proc.result.status = "ok"
    /\ history.first[proc.call].times >= 2
    /\ proc.disturbed
    /\ etf_list # <<>>


-----------------------------------------------------------------------------
(* The stochastic operations running at the same time (specification        *)
(* SpecConc): one thread per operation, as when several sessions are served *)
(* by one interpreter.  A thread can be suspended between any two calls of  *)
(* np.random, which all act on the one generator of the interpreter.        *)

Threads == {"generate_efficient_frontier", "backtest_portfolio", "monte_carlo_simulation"}

Idle == [pc |-> "idle"]

\* the frame of a call that has set the seed and still needs draws, or the
\* finished call when it needs none
Started(c, need, result) ==
    IF need = 0 THEN [pc |-> "done", call |-> c, result |-> result]
    ELSE [pc |-> "draw", call |-> c, need |-> need, draws |-> <<>>]

InitConc ==
    /\ InitRng
    /\ proc = [t \in Threads |-> Idle]
    /\ history = NoLog

\* if len(etfs) < 2: return {};  np.random.seed(42)
StartFrontier ==
    \E num_portfolios \in {DefaultNumPortfolios} :
        LET t == "generate_efficient_frontier"
            c == [op |-> t, args |-> <<num_portfolios>>]
        IN  /\ proc[t].pc = "idle"
            /\ IF Len(top_etfs) < 2
               THEN /\ proc' = [proc EXCEPT ![t] = Started(c, 0, NoFrontier)]
                    /\ rng' = rng
               ELSE /\ proc' = [proc EXCEPT ![t] = Started(c, num_portfolios, NoFrontier)]
                    /\ rng' = Seeded(42)
            /\ UNCHANGED <<optVars, stressVars, history>>

\* weights = np.random.random(len(etfs)): one pass of the loop; after the
\* last one the result is built
DrawFrontier ==
    LET t  == "generate_efficient_frontier"
        f  == proc[t]
        ds == Append(f.draws, UniformBlock(rng, Len(top_etfs)))
    IN  /\ f.pc = "draw"
        /\ rng' = Advance(rng, Len(top_etfs))
        /\ proc' = [proc EXCEPT ![t] =
                      IF Len(ds) = f.need
                      THEN [pc |-> "done", call |-> f.call,
                            result |-> frontier_of_draws(top_etfs, ds)]
                      ELSE [f EXCEPT !.draws = ds]]
        /\ UNCHANGED <<optVars, stressVars, history>>

Tickers_of(pf) == [i \in 1..Len(pf) |-> pf[i].ticker]
Weights_of(pf) == [i \in 1..Len(pf) |-> pf[i].weight]

\* np.random.seed(42) at line 878
StartBacktest ==
    \E start_date \in StartDates, end_date \in {Date(2020, 3, 31)} :
        LET t == "backtest_portfolio"
            c == [op |-> t, args |-> <<start_date, end_date>>]
            months == months_between(start_date, end_date)
        IN  /\ proc[t].pc = "idle"
            /\ rng' = Seeded(42)
            /\ proc' = [proc EXCEPT ![t] =
                          Started(c, Len(portfolio) * Len(months),
                                  backtest_of_draws(Tickers_of(portfolio), Weights_of(portfolio),
                                                    months, <<>>))]
            /\ UNCHANGED <<optVars, stressVars, history>>

\* np.random.normal(0, base_vol): one draw
DrawBacktest ==
    LET t  == "backtest_portfolio"
        f  == proc[t]
        ds == Append(f.draws, Gauss(rng))
    IN  /\ f.pc = "draw"
        /\ rng' = NextRng(rng)
        /\ proc' = [proc EXCEPT ![t] =
                      IF Len(ds) = f.need
                      THEN [pc |-> "done", call |-> f.call,
                            result |-> backtest_of_draws(
                                Tickers_of(portfolio), Weights_of(portfolio),
                                months_between(f.call.args[1], f.call.args[2]), ds)]
                      ELSE [f EXCEPT !.draws = ds]]
        /\ UNCHANGED <<optVars, stressVars, history>>

\* if total_invest <= 0: return None;  np.random.seed(42) at line 1121
StartMonteCarlo ==
    \E n_sim \in {1}, years \in {1} :
        LET t == "monte_carlo_simulation"
            c == [op |-> t, args |-> <<n_sim, years>>]
        IN  /\ proc[t].pc = "idle"
            /\ IF InvestOf(portfolio) <= 0
               THEN /\ proc' = [proc EXCEPT ![t] = Started(c, 0, NoResult)]
                    /\ rng' = rng
               ELSE /\ proc' = [proc EXCEPT ![t] =
                                  Started(c, monte_carlo_draws(portfolio, n_sim, years), NoResult)]
                    /\ rng' = Seeded(42)
            /\ UNCHANGED <<optVars, stressVars, history>>

\* np.random.normal(mu, sigma): one draw
DrawMonteCarlo ==
    LET t  == "monte_carlo_simulation"
        f  == proc[t]
        ds == Append(f.draws, Gauss(rng))
    IN  /\ f.pc = "draw"
        /\ rng' = NextRng(rng)
        /\ proc' = [proc EXCEPT ![t] =
                      IF Len(ds) = f.need
                      THEN [pc |-> "done", call |-> f.call,
                            result |-> monte_carlo_of_draws(portfolio, f.call.args[1],
                                                            f.call.args[2], ds)]
                      ELSE [f EXCEPT !.draws = ds]]
        /\ UNCHANGED <<optVars, stressVars, history>>

NextConc ==
    \/ StartFrontier \/ DrawFrontier
    \/ StartBacktest \/ DrawBacktest
    \/ StartMonteCarlo \/ DrawMonteCarlo

SpecConc == InitConc /\ [][NextConc]_vars

\* the result of the call c when nothing else runs
Alone(c) ==
    CASE c.op = "generate_efficient_frontier" ->
            generate_efficient_frontier(top_etfs, c.args[1], Seeded(0)).data
      [] c.op = "backtest_portfolio" ->
            backtest_portfolio(portfolio, c.args[1], c.args[2], Seeded(0)).data
      [] c.op = "monte_carlo_simulation" ->
            monte_carlo_simulation(portfolio, c.args[1], c.args[2], Seeded(0)).data

\* C6: a Monte Carlo simulation, a backtest and a frontier sampling whose
\* steps interleave each return what they return when run alone.
C06_ConcurrentRunsAreIsolated ==
    \A t \in Threads :
        proc[t].pc = "done" => proc[t].result = Alone(proc[t].call)

-----------------------------------------------------------------------------
(* build_portfolio on its own (specification SpecBuild): candidates with    *)
(* weight vectors that sum to 1, to less and to more                         *)

\* candidate lists as the filter and the selection hand them on
BuildPools ==
    LET pool == filter_valid_etfs(<<Universe[4], Universe[1], Universe[7]>>)
    IN  {SubSeq(pool, 1, n) : n \in 1..Len(pool)}

\* weights per candidate: a sixth, a third, a half
BuildWeights == {WDen \div 6, WDen \div 3, WDen \div 2}

\* seed_money
BuildSeedMoneys == {WDen, 2 * WDen}

InitBuild ==
    /\ etf_list = <<>>
    /\ call \in {[op |-> "build_input", seed_money |-> m] : m \in BuildSeedMoneys}
    /\ valid_etfs = <<>>
    /\ top_etfs \in BuildPools
    /\ solver = NotCalled
    /\ weights \in [1..Len(top_etfs) -> BuildWeights]
    /\ portfolio = <<>>
    /\ warnings = <<>>
    /\ stress_in = NoStress
    /\ stress_out = NoStress
    /\ rng = Seeded(0)
    /\ proc = IdleProc
    /\ history = NoHistory

Build ==
    /\ call.op = "build_input"
    /\ call' = [call EXCEPT !.op = "build_portfolio"]
    /\ portfolio' = build_portfolio(top_etfs, weights, call.seed_money)
    /\ UNCHANGED <<etf_list, valid_etfs, top_etfs, solver, weights, warnings,
                   stressVars, rngVars>>

SpecBuild == InitBuild /\ [][Build]_vars

Built == call.op = "build_portfolio"

\* C16: build_portfolio returns one holding per candidate in non-increasing
\* order of weight; where the input weights do not sum to 1 the invested
\* amount of a candidate is capital * weight / sum(weights); the invested
\* amounts sum to the capital; expected monthly income is invested * yield
\* (/ 12) and expected annual return value is invested * 1-year return.
C16_BuildPortfolio ==
    Built =>
        LET total == SumSeq(weights)
            held(i) == {h \in DOMAIN portfolio : portfolio[h].ticker = top_etfs[i].ticker}
        IN  /\ Len(portfolio) = Len(top_etfs)
            /\ \A h \in 1..(Len(portfolio) - 1) :
                  portfolio[h].weight >= portfolio[h + 1].weight
            /\ \A i \in DOMAIN top_etfs :
                  /\ Cardinality(held(i)) = 1
                  /\ \A h \in held(i) :
                        /\ total # WDen =>
                              portfolio[h].invest_amount * total = call.seed_money * weights[i]
                        /\ portfolio[h].expected_monthly_dividend =
                              portfolio[h].invest_amount * top_etfs[i].dividend_yield
                        /\ portfolio[h].expected_annual_return_value =
                              portfolio[h].invest_amount * top_etfs[i].cagr_1y
            /\ InvestOf(portfolio) = call.seed_money

\* three candidates whose weights sum to more than 1, the largest weight on
\* the last of them, so the holdings come back renormalised and reordered
C16_Witness ==
    /\ Built
    /\ Len(top_etfs) = 3
    /\ SumSeq(weights) > WDen
    /\ weights[3] > weights[1]
    /\ portfolio[1].ticker = top_etfs[3].ticker
    /\ portfolio[1].invest_amount < (call.seed_money * weights[3]) \div WDen

-----------------------------------------------------------------------------
(* filter_valid_etfs on its own (specification SpecFilter): catalogs with   *)
(* zero, negative and missing returns and with yield spikes                  *)

\* SCHD; USO (zero return); VYM (trailing yield twice the expected); NEW (no
\* return on record); ARKK (negative return); an asset whose trailing yield
\* is exactly 1.5 times the expected; one with no expected yield
FilterPool ==
    << Universe[1], Universe[3], Universe[4], Universe[6], Universe[13],
       Asset("EDGE", "DIV", 3, 45, 30, 50, 12, 5),
       Asset("NOEXP", "LC", 4, 20, 0, 60, 15, 5) >>

FilterCatalogs == SubSeqs(FilterPool)

InitFilter ==
    /\ etf_list \in FilterCatalogs
    /\ call = NoCall
    /\ valid_etfs = <<>>
    /\ top_etfs = <<>>
    /\ solver = NotCalled
    /\ weights = <<>>
    /\ portfolio = <<>>
    /\ warnings = <<>>
    /\ stress_in = NoStress
    /\ stress_out = NoStress
    /\ rng = Seeded(0)
    /\ proc = IdleProc
    /\ history = NoHistory

Filter ==
    /\ call.op = "none"
    /\ call' = [op |-> "filter_valid_etfs"]
    /\ valid_etfs' = filter_valid_etfs(etf_list)
    /\ UNCHANGED <<etf_list, top_etfs, solver, weights, portfolio, warnings,
                   stressVars, rngVars>>

SpecFilter == InitFilter /\ [][Filter]_vars

Filtered == call.op = "filter_valid_etfs"

\* the assets of the catalog with a 1-year return on record above zero
PositiveReturn(e) == "cagr_1y" \in DOMAIN e /\ e.cagr_1y > 0

-----------------------------------------------------------------------------
(* select_top_etfs on pools that fill the category caps and the size limits *)
(* (specification SpecTop)                                                   *)

\* valid assets of four categories: four DIV, three CC, three BND, one GRO
TopPool ==
    filter_valid_etfs(
        << Asset("SCHD", "DIV", 3,  35,  35,  80, 12, 8),
           Asset("JEPI", "CC",  4,  80,  80,  60, 10, 7),
           Asset("BND",  "BND", 2,  40,  40,  40,  5, 2),
           Asset("VYM",  "DIV", 3,  30,  30,  70, 13, 6),
           Asset("QYLD", "CC",  4, 110, 110,  50, 11, 4),
           Asset("AGG",  "BND", 2,  25,  25,  30,  4, 2),
           Asset("VIG",  "DIV", 3,  20,  20,  90, 12, 7),
           Asset("XYLD", "CC",  4,  90,  90,  55, 11, 4),
           Asset("TLT",  "BND", 3,  32,  32,  45,  9, 2),
           Asset("DVY",  "DIV", 4,  45,  45,  60, 14, 5),
           Asset("VUG",  "GRO", 6,   5,   5, 120, 20, 2) >>)

TopPools == SubSeqs(TopPool)

InitTop ==
    /\ valid_etfs \in TopPools
    /\ etf_list = <<>>
    /\ call = NoCall
    /\ top_etfs = <<>>
    /\ solver = NotCalled
    /\ weights = <<>>
    /\ portfolio = <<>>
    /\ warnings = <<>>
    /\ stress_in = NoStress
    /\ stress_out = NoStress
    /\ rng = Seeded(0)
    /\ proc = IdleProc
    /\ history = NoHistory

SpecTop == InitTop /\ [][SelectTop]_vars

\* the distance of the asset e to the target of the call
DistanceInCall(e) ==
    IF call.investment_focus = "dividend"
    THEN Abs(e.dividend_yield - (call.target_value * 12 * 1000) \div call.seed_money)
    ELSE Abs(e.cagr_1y - call.target_value)

\* the selection of the call: at most 8 distinct assets of the pool, at most
\* cap per category, by non-decreasing distance, an asset being left out
\* only with its category at the cap through assets no farther than it, or
\* with limit assets selected that are no farther than it
TopSelection(cap, limit) ==
    LET pool   == call.pool
        picked == {top_etfs[i].ticker : i \in DOMAIN top_etfs}
        of(c)  == {i \in DOMAIN top_etfs : top_etfs[i].category = c}
    IN  /\ Len(top_etfs) <= 8
        /\ Cardinality(picked) = Len(top_etfs)
        /\ \A i \in DOMAIN top_etfs : InList(top_etfs[i], pool)
        /\ \A i \in DOMAIN top_etfs : Cardinality(of(top_etfs[i].category)) <= cap
        /\ \A i \in 1..(Len(top_etfs) - 1) :
              DistanceInCall(top_etfs[i]) <= DistanceInCall(top_etfs[i + 1])
        /\ \A j \in DOMAIN pool :
              pool[j].ticker \notin picked =>
                  \/ /\ Cardinality(of(pool[j].category)) = cap
                     /\ \A i \in of(pool[j].category) :
                           DistanceInCall(top_etfs[i]) <= DistanceInCall(pool[j])
                  \/ /\ Len(top_etfs) = limit
                     /\ \A i \in DOMAIN top_etfs :
                           DistanceInCall(top_etfs[i]) <= DistanceInCall(pool[j])

\* C23 (the claim as stated): without a profile the selection has at most 8
\* distinct valid assets, at most 3 per category for dividend focus and 2 for
\* growth or balanced focus, by non-decreasing distance to the target; an
\* asset is left out only if its category was at the cap or 8 closer assets
\* were selected.
C23_TopSelectionLimitEight ==
    (Selected /\ call.op = "select_top_etfs") =>
        TopSelection(IF call.investment_focus = "dividend" THEN 3 ELSE 2, 8)

\* C23 (amended): as above, the size limit being 8 for dividend focus and 5
\* for growth or balanced focus.
C23_TopSelectionLimitPerFocus ==
    (Selected /\ call.op = "select_top_etfs") =>
        TopSelection(IF call.investment_focus = "dividend" THEN 3 ELSE 2,
                     IF call.investment_focus = "dividend" THEN 8 ELSE 5)

\* a dividend selection of 8 that leaves out an asset whose category is
\* below the cap
C23_Witness ==
    /\ Selected
    /\ call.op = "select_top_etfs"
    /\ call.investment_focus = "dividend"
    /\ Len(top_etfs) = 8
    /\ \E j \in DOMAIN call.pool :
          /\ \A i \in DOMAIN top_etfs : top_etfs[i].ticker # call.pool[j].ticker
          /\ Cardinality({i \in DOMAIN top_etfs :
                             top_etfs[i].category = call.pool[j].category}) < 3

-----------------------------------------------------------------------------
(* The category assignment of the backtest on its own (specification        *)
(* SpecCat): lists of one or two tickers, among them tickers that match     *)
(* more than one rule                                                        *)

CatTickers ==
    {"DIVO", "SDIV", "VYMI", "SCHD", "JEPI", "QYLD", "BNDX", "AGG", "TIP", "QQQM",
     "ARKK", "VNQ", "SCHH", "VXUS", "EFA", "GLD", "SLV", "VOO", "NOBL"}

CatTickerLists == UNION {[1..n -> CatTickers] : n \in 1..2}

InitCat ==
    /\ etf_list = <<>>
    /\ call = NoCall
    /\ valid_etfs = <<>>
    /\ top_etfs = <<>>
    /\ solver = NotCalled
    /\ weights = <<>>
    /\ portfolio = <<>>
    /\ warnings = <<>>
    /\ stress_in = NoStress
    /\ stress_out = NoStress
    /\ rng = Seeded(0)
    /\ proc \in {[op |-> "tickers", tickers |-> ts] : ts \in CatTickerLists}
    /\ history = NoHistory

\* the loop of lines 882-898: ticker_categories[ticker] = ...
AssignCategories ==
    /\ proc.op = "tickers"
    /\ proc' = [op |-> "ticker_categories", tickers |-> proc.tickers,
                ticker_categories |->
                    [t \in Range(proc.tickers) |-> ticker_category(t)]]
    /\ UNCHANGED <<optVars, stressVars, rng, history>>

SpecCat == InitCat /\ [][AssignCategories]_vars

\* the rules in the order they are tried: the texts looked for, the category
CategoryRules ==
    << [texts |-> {"DIV", "VYM", "SCHD"},  category |-> "DIV"],
       [texts |-> {"JEPI", "QYLD", "DIVO"}, category |-> "CC"],
       [texts |-> {"BND", "AGG", "TIP"},   category |-> "BND"],
       [texts |-> {"QQQ", "ARKK", "VUG"},  category |-> "GRO"],
       [texts |-> {"VNQ", "SCHH"},         category |-> "RE"],
       [texts |-> {"VXUS", "EFA"},         category |-> "INT"],
       [texts |-> {"GLD", "SLV"},          category |-> "COM"] >>

\* the rule k matches the ticker t
RuleMatches(k, t) == \E x \in CategoryRules[k].texts : Contains(Spell(t), Spell(x))

-----------------------------------------------------------------------------
(* build_portfolio followed by monte_carlo_simulation on the portfolio built *)

\* monte_carlo_simulation(portfolio, n_sim, years) on the portfolio built
SimulateBuilt ==
    /\ call.op = "build_portfolio"
    /\ \E n_sim \in SimCounts, years \in {1} :
          LET out == monte_carlo_simulation(portfolio, n_sim, years, rng)
          IN  /\ call' = [op |-> "monte_carlo_simulation", args |-> <<n_sim, years>>,
                          seed_money |-> call.seed_money, result |-> out.data]
              /\ rng' = out.rng
              /\ portfolio' = out.portfolio
    /\ UNCHANGED <<etf_list, valid_etfs, top_etfs, solver, weights, warnings,
                   stressVars, proc, history>>

SpecBuildSim == InitBuild /\ [][Build \/ SimulateBuilt]_vars

\* the Monte Carlo simulation of a built portfolio returned a result
Simulated ==
    /\ call.op = "monte_carlo_simulation"
    /\ call.result.status = "ok"

\* C28: for a portfolio produced by build_portfolio with positive capital the
\* Monte Carlo result's expected monthly dividend, total invested * sum of
\* weight * yield (/ 12), is the sum of the holdings' expected monthly
\* dividends: the stored weight of each holding is its invested amount
\* divided by the total invested.
C28_DividendMatchesHoldings ==
    (Simulated /\ call.seed_money > 0) =>
        /\ call.result.expected_monthly_dividend =
              SumSeq([h \in 1..Len(portfolio) |-> portfolio[h].expected_monthly_dividend])
        /\ \A h \in 1..Len(portfolio) :
              portfolio[h].weight * InvestOf(portfolio)
                  = portfolio[h].invest_amount * WDen

\* a simulated portfolio of three holdings, the first with a larger stored
\* weight and another yield than the last, built from weights that did not
\* sum to 1
C28_Witness ==
    /\ Simulated
    /\ call.seed_money > 0
    /\ Len(portfolio) = 3
    /\ SumSeq(weights) # WDen
    /\ portfolio[1].weight > portfolio[3].weight
    /\ portfolio[1].dividend_yield # portfolio[3].dividend_yield
    /\ call.result.expected_monthly_dividend > 0

-----------------------------------------------------------------------------
(* generate_synthetic_backtest with the month loop of lines 841-848 taken   *)
(* one iteration at a time                                                   *)

\* the days that the start and end dates are drawn from: a range of months
\* across the turn of a year, and the last two months datetime can hold
BacktestDays == {1, 15}

BacktestDates ==
    {Date(2019, m, d) : m \in 10..12, d \in BacktestDays}
    \cup {Date(2020, m, d) : m \in 1..3, d \in BacktestDays}
    \cup {Date(9999, m, d) : m \in 11..12, d \in BacktestDays}

InitMonths ==
    /\ top_etfs = <<Universe[1], Universe[7]>>
    /\ weights = initial_weights(Len(top_etfs))
    /\ portfolio = build_portfolio(top_etfs, weights, 8400)
    /\ etf_list = <<>>
    /\ call = NoCall
    /\ valid_etfs = <<>>
    /\ solver = NotCalled
    /\ warnings = <<>>
    /\ stress_in = NoStress
    /\ stress_out = NoStress
    /\ rng = Seeded(0)
    /\ history = NoLog
    /\ \E start \in BacktestDates, end \in BacktestDates :
          \* ranges of at most two years
          /\ end.year <= start.year + 1
          /\ proc = [pc |-> "loop", start |-> start, end |-> end,
                      current |-> start, months |-> <<>>]

\* lines 842-848: one iteration of 'while current <= end'
MonthStep ==
    /\ proc.pc = "loop"
    /\ DateLeq(proc.current, proc.end)
    /\ proc' = IF datetime_valid(next_month(proc.current))
                THEN [proc EXCEPT !.months = Append(@, strftime(proc.current)),
                                  !.current = next_month(@)]
                ELSE \* line 846 raises out of the function
                     [pc |-> "done", start |-> proc.start, end |-> proc.end,
                      months |-> Append(proc.months, strftime(proc.current)),
                      result |-> [status |-> "raised", error |-> "ValueError"]]
    /\ UNCHANGED <<optVars, stressVars, rng, history>>

\* line 842: 'current <= end' fails and the loop is left
MonthsExit ==
    /\ proc.pc = "loop"
    /\ ~DateLeq(proc.current, proc.end)
    /\ proc' = [pc |-> "exit", start |-> proc.start, end |-> proc.end,
                months |-> proc.months]
    /\ UNCHANGED <<optVars, stressVars, rng, history>>

\* lines 850-985 on the months collected
MonthsDone ==
    /\ proc.pc = "exit"
    /\ LET tickers == [i \in 1..Len(portfolio) |-> portfolio[i].ticker]
           ws      == [i \in 1..Len(portfolio) |-> portfolio[i].weight]
           draws   == Len(tickers) * Len(proc.months)
       IN  /\ proc' = [pc |-> "done", start |-> proc.start, end |-> proc.end,
                       months |-> proc.months,
                       result |-> backtest_of_draws(tickers, ws, proc.months,
                                                    GaussDraws(Seeded(42), draws))]
           /\ rng' = Advance(Seeded(42), draws)
    /\ UNCHANGED <<optVars, stressVars, history>>

NextMonths == MonthStep \/ MonthsExit \/ MonthsDone

\* the interpreter runs the loop on: an iteration or the exit that is enabled
\* is taken
SpecMonths == InitMonths /\ [][NextMonths]_vars /\ WF_vars(MonthStep \/ MonthsExit)

\* the number of the calendar month of a date, counted from year 0
MonthNumber(d) == d.year * 12 + d.month - 1

\* the text of the calendar month with number n
MonthText(n) == strftime(Date(n \div 12, (n % 12) + 1, 1))

\* (1 + r[1]) * ... * (1 + r[i]), in thousandths, rounded after each factor
RECURSIVE ProductUpTo(_, _)
ProductUpTo(r, i) ==
    IF i = 0 THEN 1000 ELSE (ProductUpTo(r, i - 1) * (1000 + r[i])) \div 1000

\* the backtest is over, on a range with start <= end
BacktestFinished ==
    /\ proc.pc = "done"
    /\ DateLeq(proc.start, proc.end)

\* C26: for a start date <= end date the month loop of the backtest ends, and
\* the return series has exactly one entry per calendar month from the month
\* of the start date to the month of the end date, in chronological order,
\* with cumulative[i] the product of (1 + return[j]) over j <= i.
C26_OneEntryPerMonth ==
    /\ <>(proc.pc # "loop")
    /\ [](BacktestFinished =>
            LET first  == MonthNumber(proc.start)
                last   == MonthNumber(proc.end)
                series == proc.result.return_series
            IN  /\ proc.result.status = "ok"
                /\ Len(series) = last - first + 1
                /\ \A i \in 1..Len(series) :
                      /\ series[i].date = MonthText(first + i - 1)
                      /\ series[i].cumulative =
                            ProductUpTo([j \in 1..Len(series) |-> series[j].return], i))

\* the cumulative values of a finished backtest
CumulativeSeries ==
    [i \in 1..Len(proc.result.return_series) |-> proc.result.return_series[i].cumulative]

\* the largest of the first i values of s
RunningPeak(s, i) == CHOOSE v \in {s[j] : j \in 1..i} : \A j \in 1..i : s[j] <= v

\* (running peak - value) / running peak at month i, in thousandths
DrawdownAt(s, i) == ((RunningPeak(s, i) - s[i]) * 1000) \div RunningPeak(s, i)

\* C27: the reported maximum drawdown is >= 0 and is the largest value of
\* (running peak - value) / running peak over the cumulative series, the
\* running peak starting at the first month's cumulative value and not at the
\* initial 1.0; it is 0 when the series never falls below an earlier value.
C27_MaxDrawdown ==
    (proc.pc = "done" /\ proc.result.status = "ok") =>
        LET s  == CumulativeSeries
            dd == proc.result.max_drawdown
        IN  /\ dd >= 0
            /\ \E i \in 1..Len(s) : dd = DrawdownAt(s, i)
            /\ \A i \in 1..Len(s) : DrawdownAt(s, i) <= dd
            /\ (\A i, j \in 1..Len(s) : i < j => s[i] <= s[j]) => dd = 0

\* a finished backtest whose first month already ends below the initial 1.0
\* and whose series later falls below an earlier value of its own, by less
\* than it lies below 1.0
C27_Witness ==
    /\ proc.pc = "done"
    /\ proc.result.status = "ok"
    /\ CumulativeSeries[1] < 1000
    /\ proc.result.max_drawdown > 0
    /\ proc.result.max_drawdown # max_drawdown_from_initial(CumulativeSeries)

-----------------------------------------------------------------------------
(* The application script (lines 1436-1846): every page visit and every      *)
(* button press runs it once from the top against the session state.         *)
(* etf_list is the optimizer's list and portfolio is                         *)
(* st.session_state.portfolio; proc holds the rest of the session: the data  *)
(* manager's list, whether the portfolio is still None, the page, what the   *)
(* page showed and the analysis the run invoked.                             *)

\* runs of the script per session
MaxRuns == 4

AnalysisPages == {"backtest", "stress_test", "monte_carlo"}

Pages == {"optimize", "data_update"} \cup AnalysisPages

\* the lists etf_data.csv may hold when the session starts: none, one asset
\* that the filter rejects, assets of which two are valid
SessionCatalogs == {<<>>, <<Universe[3]>>, SubSeq(Universe, 1, 3)}

\* the widget values the optimization runs are taken with: two of the three
\* focuses, one profile for each, two of the four methods of the selectbox
\* of lines 1570-1579
SessionFocuses == {"dividend", "growth"}

SessionProfiles(focus) ==
    {p \in PipelineProfiles(focus) :
        p.income_needs = "medium" /\ p.risk_tolerance = "moderate"}

SessionMethods == {"sharpe", "risk_parity"}

NoInvocation == [op |-> "none"]

\* faulty variant: only None counts as no portfolio
no_portfolio_is_none(none, pf) == none

\* 'not st.session_state.portfolio': None and the empty list
no_portfolio(none, pf) == none \/ pf = <<>>

\* what an analysis page shows before any button is pressed (lines 1667-1669,
\* 1721-1723, 1780-1782)
Shown(page, none, pf) ==
    IF page \in AnalysisPages
    THEN IF no_portfolio(none, pf) THEN "warning" ELSE "form"
    ELSE "page"

\* PortfolioOptimizer.__init__: self.etf_list = etf_list
PortfolioOptimizer(list) == list

\* faulty variant: the optimizer built at session start is kept
optimizer_kept(old, updated) == old

\* line 1465: a new optimizer on the list just loaded
optimizer_after_update(old, updated) == PortfolioOptimizer(updated)

\* the analysis a run invoked, with what it was handed
Invocation(op, pf, status) ==
    [op |-> op, holdings |-> Len(pf), total_invest |-> InvestOf(pf), status |-> status]

\* one more run of the script
Run ==
    /\ history.calls < MaxRuns
    /\ history' = [history EXCEPT !.calls = @ + 1]

\* the frame of recommend_portfolio is gone after the run that called it
ClearFrame ==
    /\ call' = NoCall
    /\ valid_etfs' = <<>>
    /\ top_etfs' = <<>>
    /\ solver' = NotCalled
    /\ weights' = <<>>
    /\ warnings' = <<>>

InitSession ==
    /\ etf_list = <<>>
    /\ call = NoCall
    /\ valid_etfs = <<>>
    /\ top_etfs = <<>>
    /\ solver = NotCalled
    /\ weights = <<>>
    /\ portfolio = <<>>
    /\ warnings = <<>>
    /\ stress_in = NoStress
    /\ stress_out = NoStress
    /\ rng = Seeded(0)
    /\ history = NoLog
    /\ proc = [initialised |-> FALSE, page |-> "none", data_manager |-> <<>>,
               portfolio_none |-> TRUE, shown |-> "none", invoked |-> NoInvocation]

\* the first run, lines 1443-1456: ETFDataManager() loads etf_data.csv, or
\* generates it where it is missing or old, the optimizer is built on its
\* list, the portfolio is None; then the page chosen is shown
FirstRun ==
    /\ Run
    /\ ~proc.initialised
    /\ \E page \in Pages :
       \E loaded \in {[data |-> c, rng |-> rng] : c \in SessionCatalogs}
                     \cup {generate_mock_data(Tickers, rng)} :
          /\ proc' = [initialised |-> TRUE, page |-> page, data_manager |-> loaded.data,
                      portfolio_none |-> TRUE, shown |-> Shown(page, TRUE, <<>>),
                      invoked |-> NoInvocation]
          /\ etf_list' = PortfolioOptimizer(loaded.data)
          /\ rng' = loaded.rng
    /\ UNCHANGED <<call, valid_etfs, top_etfs, solver, weights, portfolio, warnings,
                   stressVars>>

\* a page is chosen in the sidebar, no button is pressed
Visit ==
    /\ Run
    /\ proc.initialised
    /\ \E page \in Pages :
          proc' = [proc EXCEPT !.page = page,
                               !.shown = Shown(page, proc.portfolio_none, portfolio),
                               !.invoked = NoInvocation]
    /\ ClearFrame
    /\ UNCHANGED <<etf_list, portfolio, stressVars, rng>>

\* lines 1583-1600: the optimization button
PressOptimize ==
    /\ Run
    /\ proc.initialised
    /\ proc.page = "optimize"
    /\ \E focus \in SessionFocuses, seed_money \in SeedMoneys, method \in SessionMethods :
       \E target_value \in Targets(focus), profile \in SessionProfiles(focus) :
          /\ recommend_core(focus, seed_money, target_value, profile, method)
          /\ call' = [op |-> "recommend", investment_focus |-> focus,
                      seed_money |-> seed_money, target_value |-> target_value,
                      investor_profile |-> profile, optimization_method |-> method]
    /\ proc' = [proc EXCEPT !.portfolio_none = FALSE, !.shown = "page",
                            !.invoked = NoInvocation]
    /\ UNCHANGED stressVars

\* lines 1667-1695: the backtest button, drawn only below the else
PressBacktest ==
    /\ Run
    /\ proc.initialised
    /\ proc.page = "backtest"
    /\ ~no_portfolio(proc.portfolio_none, portfolio)
    /\ LET out == backtest_portfolio(portfolio, Date(2020, 1, 1), Date(2020, 12, 31), rng)
       IN  /\ proc' = [proc EXCEPT !.shown = "result",
                          !.invoked = Invocation("backtest_portfolio", portfolio,
                                                 out.data.status)]
           /\ rng' = out.rng
           /\ portfolio' = out.portfolio
    /\ ClearFrame
    /\ UNCHANGED <<etf_list, stressVars>>

\* lines 1721-1740: the stress test button
PressStress ==
    /\ Run
    /\ proc.initialised
    /\ proc.page = "stress_test"
    /\ ~no_portfolio(proc.portfolio_none, portfolio)
    /\ \E scenario \in KnownScenarios :
          proc' = [proc EXCEPT !.shown = "result",
                     !.invoked = Invocation("stress_test_portfolio", portfolio,
                        stress_test_portfolio(portfolio, scenario, TRUE).status)]
    /\ ClearFrame
    /\ UNCHANGED <<etf_list, portfolio, stressVars, rng>>

\* lines 1780-1809: the Monte Carlo button
PressMonteCarlo ==
    /\ Run
    /\ proc.initialised
    /\ proc.page = "monte_carlo"
    /\ ~no_portfolio(proc.portfolio_none, portfolio)
    /\ \E n_sim \in SimCounts :
          LET out == monte_carlo_simulation(portfolio, n_sim, 1, rng)
          IN  /\ proc' = [proc EXCEPT !.shown = "result",
                             !.invoked = Invocation("monte_carlo_simulation", portfolio,
                                                    out.data.status)]
              /\ rng' = out.rng
              /\ portfolio' = out.portfolio
    /\ ClearFrame
    /\ UNCHANGED <<etf_list, stressVars>>

\* lines 1459-1467: the data update button
PressUpdate ==
    /\ Run
    /\ proc.initialised
    /\ proc.page = "data_update"
    /\ LET out == generate_mock_data(Tickers, rng)
       IN  /\ proc' = [proc EXCEPT !.data_manager = out.data, !.shown = "page",
                                   !.invoked = NoInvocation]
           /\ etf_list' = optimizer_after_update(etf_list, out.data)
           /\ rng' = out.rng
    /\ ClearFrame
    /\ UNCHANGED <<portfolio, stressVars>>

NextSession ==
    \/ FirstRun
    \/ Visit
    \/ PressOptimize
    \/ PressBacktest
    \/ PressStress
    \/ PressMonteCarlo
    \/ PressUpdate

SpecSession == InitSession /\ [][NextSession]_vars

AnalysisOps == {"backtest_portfolio", "stress_test_portfolio", "monte_carlo_simulation"}

\* C29: in any sequence of page visits and button presses, backtest, stress
\* test and Monte Carlo are invoked only on a session portfolio that is not
\* empty and has a positive total invested amount; while the session has no
\* portfolio (before the first optimization, or after one that found no valid
\* asset) the three analysis pages show only the warning, so the stress
\* test never divides by a zero total.
C29_AnalysisNeedsPortfolio ==
    /\ proc.invoked.op \in AnalysisOps =>
          /\ proc.invoked.holdings > 0
          /\ proc.invoked.total_invest > 0
          /\ proc.invoked.status # "raised"
    /\ (proc.page \in AnalysisPages /\ (proc.portfolio_none \/ portfolio = <<>>)) =>
          /\ proc.shown = "warning"
          /\ proc.invoked = NoInvocation

\* the stress test page after an optimization that found no valid asset: the
\* portfolio is the empty list, not None, and the page shows the warning
C29_Witness ==
    /\ proc.page = "stress_test"
    /\ ~proc.portfolio_none
    /\ portfolio = <<>>
    /\ proc.shown = "warning"

\* C30: in every session state the optimizer's asset list is the data
\* manager's current list, after session initialisation and after every data
\* update, so an optimization run after an update filters the updated data.
C30_OptimizerHoldsCurrentData ==
    /\ proc.initialised => etf_list = proc.data_manager
    /\ (proc.initialised /\ call.op = "recommend") =>
          valid_etfs = filter_valid_etfs(proc.data_manager)

\* an optimization run on data that an update put in place of other data
C30_Witness ==
    /\ call.op = "recommend"
    /\ proc.data_manager \notin SessionCatalogs
    /\ proc.data_manager # generate_mock_data(Tickers, Seeded(0)).data
    /\ portfolio # <<>>

=============================================================================
